---- MODULE Spec2Model ----
(***************************************************************************)
(* Summit: the caching pipeline of src/summit/core.py, src/summit/sched.py *)
(* and the summarizers of src/summit/summarizers.py.                       *)
(*                                                                         *)
(* A Python str is modelled as a sequence of pieces; a piece is one        *)
(* character ("a", ":", "\r") or a fixed literal of the source that only   *)
(* holds filename-safe characters ("OllamaSummarizer", "summary").         *)
(* An Optional value is a sequence of length at most one: None is <<>>,    *)
(* a present value x is <<x>>.                                             *)
(***************************************************************************)
EXTENDS Integers, Sequences, FiniteSets, TLC

VARIABLES
    files,      \* the cache directories: path -> content of the file
    saved,      \* SpecCache: (video id, summarizer) -> text of the last save_summary_cache
    loaded,     \* SpecCache: the last load_summary_cache call and what it returned
    kind,       \* which orchestrator the command line runs: "playlist" or "sched"
    playlist,   \* the remote playlist: what extract_info reports
    event,      \* the remote schedule: its entries in page order
    backend,    \* the summarizer the command line constructs (--summarizer, --model)
    pc,         \* where the running orchestrator is
    args,       \* the arguments of the current call
    talks,      \* process_playlist: videos; process_sched_talks: talks (after offset/limit)
    used_cache, \* process_sched_talks: used_cache
    pos,        \* process_playlist: the loop position of phase 1 / phase 2
    prepared,   \* process_playlist: prepared
    tasks,      \* process_sched_talks: the process_video coroutines handed to gather
    lock,       \* OllamaSummarizer._lock: 0 when free, else the task holding it
    output,     \* the mapping being built / returned, in insertion order
    calls,      \* external calls issued by the current run, per service
    issued,     \* video ids for which download_subtitles was called in the current run
    failed,     \* video ids whose summarizer backend call failed in the current run
    pinned,     \* SpecRerun: the same command line is repeated
    prev,       \* SpecRerun: the previous completed run
    gemini,     \* SpecGemini: the running GeminiSummarizer.summarize call
    fetch,      \* SpecFetch: the last _download_subtitles_sync call and what it did
    writer,     \* SpecWrite: the cache write in progress, if any
    detail,     \* SpecDetail: the running _fetch_talk_detail call
    ollama,     \* SpecOllama: the summarize calls on one sequential OllamaSummarizer
    disk        \* the state of the cache directories: which writes fail

runVars == <<pc, args, talks, used_cache, pos, prepared, tasks, lock, output, calls,
             issued, failed>>

worldVars == <<kind, playlist, event, backend, pinned, disk>>

cacheVars == <<saved, loaded>>

\* What the pipeline never touches: the state of the component specifications
unitVars == <<cacheVars, gemini, fetch, writer, detail, ollama>>

vars == <<files, saved, loaded, kind, playlist, event, backend, pc, args, talks, used_cache, pos,
          prepared, tasks, lock, output, calls, issued, failed, pinned, prev, gemini, fetch,
          writer, detail, ollama, disk>>

\* Every cache directory exists and can be written
DiskOk == [nowrite |-> {}, nomkdir |-> FALSE]

\* The pipeline is not running in SpecCache.
NoRun ==
    /\ kind = "none" /\ playlist = <<>> /\ event = <<>> /\ backend = <<>>
    /\ pc = "idle" /\ args = <<>>
    /\ talks = <<>> /\ used_cache = FALSE /\ pos = 0 /\ prepared = <<>> /\ tasks = <<>>
    /\ lock = 0 /\ output = <<>> /\ calls = <<>> /\ issued = {} /\ failed = {}
    /\ pinned = <<>> /\ prev = <<>>
    /\ disk = DiskOk

----------------------------------------------------------------------------
(* Optional values *)

None == <<>>
Some(x) == <<x>>

----------------------------------------------------------------------------
(* Strings *)

CR == "\r"
LF == "\n"

Digits == <<"0", "1", "2", "3", "4", "5", "6", "7", "8", "9">>

\* str(n) for an int n >= 0
RECURSIVE IntToStr(_)
IntToStr(n) ==
    IF n < 10 THEN <<Digits[n + 1]>>
    ELSE IntToStr(n \div 10) \o <<Digits[(n % 10) + 1]>>

\* Video ids: "v1", "v2", ...
VideoId(i) == <<"v", Digits[i + 1]>>

\* sep.join(parts)
RECURSIVE Join(_, _)
Join(parts, sep) ==
    IF parts = <<>> THEN <<>>
    ELSE IF Len(parts) = 1 THEN parts[1]
    ELSE parts[1] \o sep \o Join(Tail(parts), sep)

\* The pieces matched by the character class [A-Za-z0-9._-]
SafePieces ==
    {Digits[i] : i \in 1..10}
    \cup {"a", "b", "e", "m", "s", "t", "v", "w", ".", "_", "-"}
    \cup {"AnthropicSummarizer", "OpenAISummarizer", "GeminiSummarizer",
          "OllamaSummarizer", "summary", "subtitles", "txt", "https", "sched", "com"}

\* re.sub(r"[^A-Za-z0-9._-]", "_", raw)
MakeSafe(raw) ==
    [i \in 1..Len(raw) |-> IF raw[i] \in SafePieces THEN raw[i] ELSE "_"]

\* os.linesep of the host the cache lives on (a POSIX home directory)
LineSep == <<LF>>

\* What open(path, "w", newline=None).write(text) puts in the file:
\* every "\n" becomes os.linesep.
RECURSIVE WriteText(_)
WriteText(text) ==
    IF text = <<>> THEN <<>>
    ELSE (IF Head(text) = LF THEN LineSep ELSE <<Head(text)>>) \o WriteText(Tail(text))

\* What open(path, "r", newline=None).read() returns for the file's data:
\* universal newlines, "\r\n" and "\r" both become "\n".
RECURSIVE ReadText(_)
ReadText(data) ==
    IF data = <<>> THEN <<>>
    ELSE IF Head(data) = CR
         THEN IF Len(data) >= 2 /\ data[2] = LF
              THEN <<LF>> \o ReadText(Tail(Tail(data)))
              ELSE <<LF>> \o ReadText(Tail(data))
         ELSE <<Head(data)>> \o ReadText(Tail(data))

----------------------------------------------------------------------------
(* Summarizer instances and their cache identity *)

\* A summarizer instance: its class, its model and summary_length attributes,
\* and whether it holds an asyncio.Lock (OllamaSummarizer with sequential).
Summarizer(cls, model, summary_length, sequential) ==
    [cls |-> cls, model |-> model, summary_length |-> summary_length,
     sequential |-> sequential]

_summarizer_cache_key_parts(summarizer) ==
    LET cls_name == <<summarizer.cls>>
        parts == <<cls_name>>
                 \o (IF summarizer.model # <<>> THEN <<summarizer.model>> ELSE <<>>)
                 \o (IF summarizer.summary_length # 0
                     THEN <<IntToStr(summarizer.summary_length)>> ELSE <<>>)
        raw == Join(parts, <<"_">>)
    IN  MakeSafe(raw)

\* get_cache_dir() / 'summaries'
SummaryDir == <<"~/.cache/summit/summaries/">>

get_summary_cache_path(video_id, summarizer) ==
    SummaryDir \o <<"summary", "_">> \o video_id \o <<"_">>
        \o _summarizer_cache_key_parts(summarizer) \o <<".", "txt">>

\* Path.home() / '.cache' / 'subtitles'
SubtitleDir == <<"~/.cache/subtitles/">>

\* transcripts stored under the summary path of the default Anthropic summarizer
get_subtitle_cache_path_shared(video_id) ==
    get_summary_cache_path(video_id, Summarizer("AnthropicSummarizer", <<"m">>, 800, FALSE))

get_subtitle_cache_path(video_id) ==
    SubtitleDir \o <<"subtitles", "_">> \o video_id \o <<".", "txt">>

----------------------------------------------------------------------------
(* The text caches: one file per key *)

\* cache_path.write_text(text): the file system after the write
WriteFile(fs, path, data) ==
    [p \in DOMAIN fs \cup {path} |-> IF p = path THEN data ELSE fs[p]]

load_summary_cache(fs, video_id, summarizer) ==
    LET cache_path == get_summary_cache_path(video_id, summarizer)
    IN  IF cache_path \in DOMAIN fs THEN Some(ReadText(fs[cache_path])) ELSE None

\* a save that writes nothing
save_summary_cache_skipped(fs, video_id, summarizer, summary) == fs

\* write_text raising is caught and printed: the file stays as it was
save_summary_cache(fs, video_id, summarizer, summary) ==
    IF "summaries" \in disk.nowrite THEN fs
    ELSE WriteFile(fs, get_summary_cache_path(video_id, summarizer), WriteText(summary))

load_subtitle_cache(fs, video_id) ==
    LET cache_path == get_subtitle_cache_path(video_id)
    IN  IF cache_path \in DOMAIN fs THEN Some(ReadText(fs[cache_path])) ELSE None

save_subtitle_cache(fs, video_id, subtitles) ==
    IF "subtitles" \in disk.nowrite THEN fs
    ELSE WriteFile(fs, get_subtitle_cache_path(video_id), WriteText(subtitles))

----------------------------------------------------------------------------
(* The source-list caches: one JSON file per source URL *)

\* get_cache_dir()
CacheDir == <<"~/.cache/summit/">>

\* hashlib.md5(url.encode()).hexdigest(): an opaque digest, one per URL
Md5Hex(url) == <<"md5(">> \o url \o <<")">>

get_playlist_cache_path(playlist_url) ==
    CacheDir \o <<"playlist", "_">> \o Md5Hex(playlist_url) \o <<".", "json">>

\* A JSON file: what json.dump wrote, or text json.load cannot parse
JsonFile(data) == [parses |-> TRUE, data |-> data]
CorruptFile == [parses |-> FALSE, data |-> <<>>]

\* json.load of what json.dump wrote: lists of dicts of str, int and None
\* come back equal; a parse error is caught and gives None.
load_playlist_cache(fs, playlist_url) ==
    LET cache_path == get_playlist_cache_path(playlist_url)
    IN  IF cache_path \in DOMAIN fs /\ fs[cache_path].parses
        THEN Some(fs[cache_path].data)
        ELSE None

save_playlist_cache(fs, playlist_url, videos) ==
    IF "lists" \in disk.nowrite THEN fs
    ELSE WriteFile(fs, get_playlist_cache_path(playlist_url), JsonFile(videos))

\* A URL as urlparse splits it
Url(scheme, netloc, path, query) ==
    [scheme |-> scheme, netloc |-> netloc, path |-> path, query |-> query]

_safe_filename_from_url(url) ==
    LET base == url.scheme \o <<":", "/", "/">> \o url.netloc \o url.path
                \o (IF url.query # <<>> THEN <<"?">> \o url.query ELSE <<>>)
    IN  MakeSafe(base)

get_sched_cache_path(sched_url) ==
    CacheDir \o <<"sched", "_">> \o _safe_filename_from_url(sched_url) \o <<".", "json">>

load_sched_cache(fs, sched_url) ==
    LET cache_path == get_sched_cache_path(sched_url)
    IN  IF cache_path \in DOMAIN fs /\ fs[cache_path].parses
        THEN Some(fs[cache_path].data)
        ELSE None

save_sched_cache(fs, sched_url, scraped) ==
    IF "lists" \in disk.nowrite THEN fs
    ELSE WriteFile(fs, get_sched_cache_path(sched_url), JsonFile(scraped))

----------------------------------------------------------------------------
(* The remote services *)

MaxTalks == 2

\* The playlist and the event given on the command line
PlaylistUrl == <<"https://www.youtube.com/playlist?list=", "PL1">>
SchedUrl == Url(<<"https">>, <<"e", ".", "sched", ".", "com">>, <<"/">>, <<>>)

\* parse_qs(urlparse(playlist_url).query).get('list')
PlaylistId(playlist_url) == Tail(playlist_url)

WatchPrefix == "https://www.youtube.com/watch?v="
ShortPrefix == "https://youtu.be/"

WatchUrl(video_id) == <<WatchPrefix>> \o video_id

\* extract_video_id: the id, or None where the source raises ValueError
extract_video_id(url) ==
    IF url # <<>> /\ Head(url) \in {WatchPrefix, ShortPrefix} THEN Some(Tail(url)) ELSE None

Title(i) == <<"t", Digits[i + 1]>>

\* Durations yt_dlp may report, around the two-minute threshold
Durations == <<0, 1, 119, 120>>

\* The playlists extract_info may report: entry i is video "v<i>"
Playlists ==
    {[i \in 1..MaxTalks |->
        [id |-> VideoId(i), title |-> Title(i),
         duration |-> Durations[((i + r) % Len(Durations)) + 1]]] : r \in 1..Len(Durations)}
    \cup {<<>>}

\* The schedule pages: entry i links to detail page "e<i>", whose video, when
\* it has one, is "v<i>"; missing is the entry without a YouTube link.
SchedEntry(i, missing) ==
    [sched_link |-> <<"e", Digits[i + 1]>>,
     title |-> Title(i),
     description |-> <<"d", Digits[i + 1]>>,
     youtube_url |-> IF i = missing THEN None ELSE Some(WatchUrl(VideoId(i))),
     event_type |-> IF i % 2 = 1 THEN Some(<<"Keynote">>) ELSE None,
     deck_url |-> IF i % 2 = 0 THEN Some(<<"https://e.sched.com/deck">>) ELSE None]

Events == {[i \in 1..MaxTalks |-> SchedEntry(i, missing)] : missing \in 0..MaxTalks}

\* What api.fetch(video_id) may do: raise, or return these segments
TranscriptOutcomes ==
    {[ok |-> FALSE, segments |-> <<>>],
     [ok |-> TRUE, segments |-> <<<<"a">>, <<"b">>>>]}

\* What a summarizer backend may do: answer with a text, or fail
SummaryTexts == {<<"s">>}

BackendOutcomes ==
    {[ok |-> TRUE, text |-> t] : t \in SummaryTexts} \cup {[ok |-> FALSE, text |-> <<>>]}

ErrorSentinel == <<"Summary unavailable due to an error.">>

\* An exception leaving summarize()
Raised == <<"<exception>">>

\* summarize without its except clause: a backend failure leaves the call
summarize_uncaught(summarizer, outcome) ==
    IF outcome.ok THEN outcome.text ELSE Raised

\* Summarizer.summarize: the backend call inside try/except
summarize(summarizer, outcome) ==
    IF outcome.ok THEN outcome.text ELSE ErrorSentinel

PipelineSummarizers ==
    {Summarizer("AnthropicSummarizer", <<"m">>, 800, FALSE),
     Summarizer("OllamaSummarizer", <<"m">>, 800, TRUE)}

----------------------------------------------------------------------------
(* Shared helpers of the two orchestrators *)

MinDuration == 120

\* the threshold test with <= for <
TooShort_inclusive(duration) == duration > 0 /\ duration <= MinDuration

\* duration > 0 and duration < 120
TooShort(duration) == duration > 0 /\ duration < MinDuration

\* seq[:n]
Take(seq, n) == SubSeq(seq, 1, IF n < Len(seq) THEN n ELSE Len(seq))

\* seq[n:]
Drop(seq, n) == SubSeq(seq, n + 1, Len(seq))

\* d[key] = value on an insertion-ordered dict
DictSet(d, key, value) ==
    IF \E i \in 1..Len(d) : d[i].key = key
    THEN [i \in 1..Len(d) |-> IF d[i].key = key THEN [key |-> key, value |-> value] ELSE d[i]]
    ELSE Append(d, [key |-> key, value |-> value])

Keys(d) == [i \in 1..Len(d) |-> d[i].key]

HasKey(d, key) == \E i \in 1..Len(d) : d[i].key = key

Get(d, key) == d[CHOOSE i \in 1..Len(d) : d[i].key = key].value

ZeroCalls == [list |-> 0, detail |-> 0, transcript |-> 0, summarize |-> 0]

\* _download_subtitles_sync without the cache lookup
_download_subtitles_sync_uncached(fs, video_id, outcome) ==
    IF outcome.ok
    THEN LET subtitles == Join(outcome.segments, <<" ">>)
         IN  [result |-> Some(subtitles),
              fs |-> save_subtitle_cache(fs, video_id, subtitles),
              fetched |-> 1, raised |-> FALSE]
    ELSE [result |-> None, fs |-> fs, fetched |-> 1, raised |-> FALSE]

\* _download_subtitles_sync without the save after a successful fetch
_download_subtitles_sync_unsaved(fs, video_id, outcome) ==
    LET cached == load_subtitle_cache(fs, video_id)
    IN  IF cached # None
        THEN [result |-> cached, fs |-> fs, fetched |-> 0, raised |-> FALSE]
        ELSE IF outcome.ok
             THEN [result |-> Some(Join(outcome.segments, <<" ">>)), fs |-> fs,
                   fetched |-> 1, raised |-> FALSE]
             ELSE [result |-> None, fs |-> fs, fetched |-> 1, raised |-> FALSE]

\* a fetcher that records a failed fetch as an empty transcript
_download_subtitles_sync_negative(fs, video_id, outcome) ==
    LET cached == load_subtitle_cache(fs, video_id)
    IN  IF cached # None
        THEN [result |-> cached, fs |-> fs, fetched |-> 0, raised |-> FALSE]
        ELSE IF outcome.ok
             THEN LET subtitles == Join(outcome.segments, <<" ">>)
                  IN  [result |-> Some(subtitles),
                       fs |-> save_subtitle_cache(fs, video_id, subtitles),
                       fetched |-> 1, raised |-> FALSE]
             ELSE [result |-> None, fs |-> save_subtitle_cache(fs, video_id, <<>>),
                   fetched |-> 1, raised |-> FALSE]

\* _download_subtitles_sync: the result, the cache afterwards, whether the
\* external transcript service was called, and whether the call raised: the
\* mkdir of get_subtitle_cache_path runs before the try block
_download_subtitles_sync(fs, video_id, outcome) ==
    LET cached == load_subtitle_cache(fs, video_id)
    IN  IF disk.nomkdir
        THEN [result |-> None, fs |-> fs, fetched |-> 0, raised |-> TRUE]
        ELSE IF cached # None
        THEN [result |-> cached, fs |-> fs, fetched |-> 0, raised |-> FALSE]
        ELSE IF outcome.ok
             THEN LET subtitles == Join(outcome.segments, <<" ">>)
                  IN  [result |-> Some(subtitles),
                       fs |-> save_subtitle_cache(fs, video_id, subtitles),
                       fetched |-> 1, raised |-> FALSE]
             ELSE [result |-> None, fs |-> fs, fetched |-> 1, raised |-> FALSE]

\* a summary decision that ignores the transcript
ShouldSummarize_always(summary, subtitles) == summary = None

\* "if summary is None: if subtitles:": the summarizer is called only without
\* a cached summary and with a transcript that is neither None nor ""
ShouldSummarize(summary, subtitles) == summary = None /\ subtitles # <<>>

\* a lock that never makes a caller wait
LockFree_always(l) == TRUE

\* asyncio.Lock: acquire() returns at once only when the lock is not held
LockFree(l) == l = 0

\* a record that drops its summary
Record_blank(index, title, summary, sched_link) ==
    [index |-> index, title |-> title, summary |-> <<>>, sched_link |-> sched_link,
     event_type |-> None, deck_url |-> None]

\* The talk record process_video / process_playlist build
Record(index, title, summary, sched_link) ==
    [index |-> index, title |-> title, summary |-> summary, sched_link |-> sched_link,
     event_type |-> None, deck_url |-> None]

----------------------------------------------------------------------------
(* The arguments of a run *)

Limits == 0..MaxTalks       \* --limit; 0 is "no limit", as is leaving it out
Offsets == 0..MaxTalks      \* --offset

PlaylistArgs ==
    [limit : Limits, refresh_cache : BOOLEAN, use_summary_cache : BOOLEAN,
     summarizer : {backend}, summarize : {TRUE}, offset : {0}]

SchedArgs ==
    [limit : Limits, refresh_cache : BOOLEAN, use_summary_cache : BOOLEAN,
     summarizer : {backend}, summarize : BOOLEAN, offset : Offsets]

\* The run that just completed left everything it returned in the caches: the
\* source list, a transcript for every talk it processed, and each summary.
TalkCached(fs, video_id, summarizer, summary) ==
    LET sub == load_subtitle_cache(fs, video_id)
        sum == load_summary_cache(fs, video_id, summarizer)
    IN  /\ sub # None
        /\ IF sum # None THEN sum[1] = summary ELSE (sub[1] = <<>> /\ summary = <<>>)

LeftInCache ==
    /\ IF kind = "playlist"
       THEN load_playlist_cache(files, PlaylistUrl) # None
       ELSE load_sched_cache(files, SchedUrl) # None
    /\ args.summarize =>
        /\ \A i \in 1..Len(talks) :
             LET video_id == IF kind = "playlist" THEN talks[i].id
                             ELSE extract_video_id(talks[i].youtube_url)[1]
                 url == IF kind = "playlist" THEN talks[i].indexed_url
                        ELSE talks[i].youtube_url
             IN  (kind = "playlist" /\ TooShort(talks[i].duration))
                 \/ (/\ HasKey(output, url)
                     /\ TalkCached(files, video_id, args.summarizer,
                                   Get(output, url).summary))

\* A new call of the orchestrator by a new process
StartArgs(a) ==
    /\ pc = "idle"
    /\ pinned # None => a = pinned[1]
    /\ args' = a
    /\ issued' = {}
    /\ failed' = {}
    /\ UNCHANGED <<worldVars, unitVars, prev>>

\* return {} before any talk is processed
\* a return {} that caches the empty list first
ReturnEmpty_cached(c, fs) ==
    /\ pc' = "done"
    /\ output' = <<>>
    /\ talks' = <<>>
    /\ calls' = c
    /\ files' = save_playlist_cache(fs, PlaylistUrl, <<>>)
    /\ UNCHANGED <<used_cache, pos, prepared, tasks, lock>>

\* return {} before any talk is looked at
ReturnEmpty(c, fs) ==
    /\ pc' = "done"
    /\ output' = <<>>
    /\ talks' = <<>>
    /\ calls' = c
    /\ files' = fs
    /\ UNCHANGED <<used_cache, pos, prepared, tasks, lock>>

----------------------------------------------------------------------------
(* process_playlist *)

\* The videos list built from playlist_info['entries']
Videos(entries) ==
    [i \in 1..Len(entries) |->
        [url |-> WatchUrl(entries[i].id), title |-> entries[i].title,
         duration |-> entries[i].duration]]

\* videos[:limit] when a limit is given, with each video's position, id and
\* indexed URL as phase 1 computes them
PlaylistWindow(videos, limit) ==
    LET cut == IF limit > 0 THEN Take(videos, limit) ELSE videos
    IN  [idx \in 1..Len(cut) |->
            [index |-> idx, url |-> cut[idx].url, title |-> cut[idx].title,
             duration |-> cut[idx].duration,
             id |-> extract_video_id(cut[idx].url)[1],
             indexed_url |-> cut[idx].url \o <<"&list=">> \o PlaylistId(PlaylistUrl)
                             \o <<"&index=">> \o IntToStr(idx)]]

BeginPhase1(videos, a, c, fs) ==
    /\ talks' = PlaylistWindow(videos, a.limit)
    /\ pos' = 1
    /\ prepared' = <<>>
    /\ output' = <<>>
    /\ pc' = "phase1"
    /\ calls' = c
    /\ files' = fs
    /\ UNCHANGED <<used_cache, tasks, lock>>

\* videos come from the playlist cache
PlaylistFromCache(a) ==
    /\ kind = "playlist"
    /\ StartArgs(a)
    /\ ~a.refresh_cache
    /\ load_playlist_cache(files, PlaylistUrl) # None
    /\ BeginPhase1(load_playlist_cache(files, PlaylistUrl)[1], a, ZeroCalls, files)

\* cache miss or refresh: extract_info succeeds and the list is cached
PlaylistFetch(a) ==
    /\ kind = "playlist"
    /\ StartArgs(a)
    /\ a.refresh_cache \/ load_playlist_cache(files, PlaylistUrl) = None
    /\ LET videos == Videos(playlist)
       IN  BeginPhase1(videos, a, [ZeroCalls EXCEPT !.list = 1],
                       save_playlist_cache(files, PlaylistUrl, videos))

\* cache miss or refresh: extract_info raises, or reports no 'entries'
PlaylistFetchFails(a) ==
    /\ kind = "playlist"
    /\ StartArgs(a)
    /\ a.refresh_cache \/ load_playlist_cache(files, PlaylistUrl) = None
    /\ ReturnEmpty([ZeroCalls EXCEPT !.list = 1], files)

\* phase 1, a video shorter than two minutes: continue
Phase1Skip ==
    /\ pc = "phase1"
    /\ pos <= Len(talks)
    /\ TooShort(talks[pos].duration)
    /\ pos' = pos + 1
    /\ UNCHANGED <<files, worldVars, unitVars, prev, pc, args, talks, used_cache, prepared,
                   tasks, lock, output, calls, issued, failed>>

\* phase 1, one video: await download_subtitles, then prepared.append
Phase1Fetch(outcome) ==
    /\ pc = "phase1"
    /\ pos <= Len(talks)
    /\ ~TooShort(talks[pos].duration)
    /\ LET video == talks[pos]
           got == _download_subtitles_sync(files, video.id, outcome)
           subtitles == IF got.result = None THEN <<>> ELSE got.result[1]
       IN  /\ files' = got.fs
           /\ calls' = [calls EXCEPT !.transcript = @ + got.fetched]
           /\ issued' = issued \cup {video.id}
           /\ IF got.raised
              THEN pc' = "raised" /\ UNCHANGED <<prepared, pos>>
              ELSE /\ pc' = pc
                   /\ pos' = pos + 1
                   /\ prepared' = Append(prepared,
                          [index |-> video.index, indexed_url |-> video.indexed_url,
                           title |-> video.title, video_id |-> video.id,
                           subtitles |-> subtitles])
    /\ UNCHANGED <<worldVars, unitVars, prev, args, talks, used_cache, tasks, lock,
                   output, failed>>

\* the loop of phase 1 is over
Phase1End ==
    /\ pc = "phase1"
    /\ pos > Len(talks)
    /\ pc' = "phase2"
    /\ pos' = 1
    /\ UNCHANGED <<files, worldVars, unitVars, prev, args, talks, used_cache, prepared,
                   tasks, lock, output, calls, issued, failed>>

Phase2Put(item, summary) ==
    /\ output' = DictSet(output, item.indexed_url,
                         Record(item.index, item.title, summary, None))
    /\ pos' = pos + 1
    /\ pc' = pc

\* phase 2, one item whose summary is in the summary cache
Phase2Cached ==
    /\ pc = "phase2"
    /\ pos <= Len(prepared)
    /\ args.use_summary_cache
    /\ LET item == prepared[pos]
           cached == load_summary_cache(files, item.video_id, args.summarizer)
       IN  /\ cached # None
           /\ Phase2Put(item, cached[1])
    /\ UNCHANGED <<files, worldVars, unitVars, prev, args, talks, used_cache, prepared,
                   tasks, lock, calls, issued, failed>>

\* phase 2, one item with subtitles and no usable cached summary:
\* await summarizer.summarize, then save_summary_cache
Phase2Summarize(outcome) ==
    /\ pc = "phase2"
    /\ pos <= Len(prepared)
    /\ LET item == prepared[pos]
           summary == summarize(args.summarizer, outcome)
           cached == IF args.use_summary_cache
                     THEN load_summary_cache(files, item.video_id, args.summarizer)
                     ELSE None
       IN  /\ ShouldSummarize(cached, item.subtitles)
           /\ calls' = [calls EXCEPT !.summarize = @ + 1]
           /\ failed' = IF outcome.ok THEN failed ELSE failed \cup {item.video_id}
           /\ IF summary = Raised
              THEN /\ pc' = "raised"
                   /\ UNCHANGED <<files, output, pos>>
              ELSE /\ files' = save_summary_cache(files, item.video_id, args.summarizer,
                                                  summary)
                   /\ Phase2Put(item, summary)
    /\ UNCHANGED <<worldVars, unitVars, prev, args, talks, used_cache, prepared, tasks,
                   lock, issued>>

\* phase 2, one item without subtitles and without a usable cached summary
Phase2Blank ==
    /\ pc = "phase2"
    /\ pos <= Len(prepared)
    /\ LET item == prepared[pos]
           cached == IF args.use_summary_cache
                     THEN load_summary_cache(files, item.video_id, args.summarizer)
                     ELSE None
       IN  /\ cached = None
           /\ ~ShouldSummarize(cached, item.subtitles)
           /\ Phase2Put(item, <<>>)
    /\ UNCHANGED <<files, worldVars, unitVars, prev, args, talks, used_cache, prepared,
                   tasks, lock, calls, issued, failed>>

\* return output
PlaylistReturn ==
    /\ pc = "phase2"
    /\ pos > Len(prepared)
    /\ pc' = "done"
    /\ UNCHANGED <<files, worldVars, unitVars, prev, args, talks, used_cache, pos, prepared,
                   tasks, lock, output, calls, issued, failed>>

----------------------------------------------------------------------------
(* scrape_sched_talks_async *)

\* a detail-page parser that returns the talk whether or not it links a video
_fetch_talk_detail_keeps(entry) ==
    Some([title |-> entry.title, sched_link |-> entry.sched_link,
          youtube_url |-> IF entry.youtube_url # None THEN entry.youtube_url[1] ELSE <<>>,
          description |-> entry.description,
          event_type |-> entry.event_type, deck_url |-> entry.deck_url])

\* _fetch_talk_detail: the talk dict, or None for a page without a YouTube link
_fetch_talk_detail(entry) ==
    IF entry.youtube_url # None
    THEN Some([title |-> entry.title, sched_link |-> entry.sched_link,
               youtube_url |-> entry.youtube_url[1], description |-> entry.description,
               event_type |-> entry.event_type, deck_url |-> entry.deck_url])
    ELSE None

\* The detail-page loop from schedule entry idx on: the talks collected, the
\* number of detail pages requested and the entries they were requested for.
\* limit = 0 stands for limit=None.
RECURSIVE ScrapeLoop(_, _, _, _, _)
ScrapeLoop(sched_links, idx, current_offset, acc, limit) ==
    IF idx > Len(sched_links) THEN acc
    ELSE IF current_offset > 0
         THEN ScrapeLoop(sched_links, idx + 1, current_offset - 1, acc, limit)
         ELSE LET talk == _fetch_talk_detail(sched_links[idx])
                  next == [talks |-> IF talk # None THEN Append(acc.talks, talk[1])
                                     ELSE acc.talks,
                           requests |-> acc.requests + 1,
                           asked |-> Append(acc.asked, idx)]
              IN  IF limit > 0 /\ Len(next.talks) >= limit
                  THEN next
                  ELSE ScrapeLoop(sched_links, idx + 1, 0, next, limit)

\* a scrape that requests every detail page and drops the first offset
\* entries afterwards
scrape_sched_talks_async_late(entries, limit, offset) ==
    LET got == ScrapeLoop(entries, 1, 0,
                          [talks |-> <<>>, requests |-> 0, asked |-> <<>>], 0)
        kept == Drop(got.talks, IF offset > 0 THEN offset ELSE 0)
    IN  [talks |-> IF limit > 0 /\ Len(kept) > limit THEN Take(kept, limit) ELSE kept,
         requests |-> got.requests,
         asked |-> got.asked]

scrape_sched_talks_async(entries, limit, offset) ==
    LET current_offset == IF offset > 0 THEN offset ELSE 0
        got == ScrapeLoop(entries, 1, current_offset,
                          [talks |-> <<>>, requests |-> 0, asked |-> <<>>], limit)
    IN  [talks |-> IF limit > 0 /\ Len(got.talks) > limit THEN Take(got.talks, limit)
                   ELSE got.talks,
         requests |-> got.requests,
         asked |-> got.asked]

----------------------------------------------------------------------------
(* process_sched_talks *)

\* the cache slice taken one entry too early
ApplyOffset_early(scraped, from_cache, offset) ==
    IF from_cache /\ offset > 0 THEN Drop(scraped, offset - 1) ELSE scraped

\* talks = talks[offset:] when working from the cache
ApplyOffset(scraped, from_cache, offset) ==
    IF from_cache /\ offset > 0 THEN Drop(scraped, offset) ELSE scraped

\* talks = talks[:limit] when a limit is given
\* no limit applied to the talks
ApplyLimit_none(scraped, limit) == scraped

ApplyLimit(scraped, limit) ==
    IF limit > 0 /\ Len(scraped) > limit THEN Take(scraped, limit) ELSE scraped

\* an output whose summaries are the talk titles
RECURSIVE DescriptionOutput_titles(_, _, _)
DescriptionOutput_titles(window, idx, out) ==
    IF idx > Len(window) THEN out
    ELSE LET talk == window[idx]
             result == [index |-> idx, title |-> talk.title, summary |-> talk.title,
                        sched_link |-> Some(talk.sched_link),
                        event_type |-> talk.event_type, deck_url |-> talk.deck_url]
         IN  DescriptionOutput_titles(window, idx + 1, DictSet(out, talk.youtube_url, result))

\* The output built from the Sched descriptions (summarize = False)
RECURSIVE DescriptionOutput(_, _, _)
DescriptionOutput(window, idx, out) ==
    IF idx > Len(window) THEN out
    ELSE LET talk == window[idx]
             result == [index |-> idx, title |-> talk.title, summary |-> talk.description,
                        sched_link |-> Some(talk.sched_link),
                        event_type |-> talk.event_type, deck_url |-> talk.deck_url]
         IN  DescriptionOutput(window, idx + 1, DictSet(out, talk.youtube_url, result))

\* A process_video coroutine up to its first suspension: it returns None at
\* once for a URL extract_video_id rejects, else it awaits download_subtitles.
NewTask(talk) ==
    IF extract_video_id(talk.youtube_url) = None
    THEN [pc |-> "done", video_id |-> <<>>, subtitles |-> <<>>, result |-> None]
    ELSE [pc |-> "fetching", video_id |-> extract_video_id(talk.youtube_url)[1],
          subtitles |-> <<>>, result |-> None]

\* The rest of process_sched_talks once talks is known
SchedContinue(scraped, from_cache, a, c, fs) ==
    /\ used_cache' = from_cache
    /\ calls' = c
    /\ files' = fs
    /\ pos' = pos
    /\ prepared' = prepared
    /\ lock' = 0
    /\ IF scraped = <<>>
       THEN /\ pc' = "done"
            /\ output' = <<>>
            /\ talks' = <<>>
            /\ tasks' = <<>>
       ELSE LET window == ApplyLimit(ApplyOffset(scraped, from_cache, a.offset), a.limit)
            IN  /\ talks' = window
                /\ IF ~a.summarize
                   THEN /\ pc' = "done"
                        /\ output' = DescriptionOutput(window, 1, <<>>)
                        /\ tasks' = <<>>
                   ELSE /\ pc' = "gather"
                        /\ output' = <<>>
                        /\ tasks' = [i \in 1..Len(window) |-> NewTask(window[i])]

\* talks come from the sched cache
SchedFromCache(a) ==
    /\ kind = "sched"
    /\ StartArgs(a)
    /\ ~a.refresh_cache
    /\ load_sched_cache(files, SchedUrl) # None
    /\ SchedContinue(load_sched_cache(files, SchedUrl)[1], TRUE, a, ZeroCalls, files)

\* cache miss or refresh: the schedule page is fetched and its detail pages scraped
SchedScrape(a) ==
    /\ kind = "sched"
    /\ StartArgs(a)
    /\ a.refresh_cache \/ load_sched_cache(files, SchedUrl) = None
    /\ LET fetch_limit == IF a.limit > 0 THEN a.limit ELSE 0
           got == scrape_sched_talks_async(event, fetch_limit, a.offset)
           fs == IF got.talks # <<>> /\ ~a.refresh_cache /\ a.offset = 0
                 THEN save_sched_cache(files, SchedUrl, got.talks)
                 ELSE files
       IN  SchedContinue(got.talks, FALSE, a,
                         [ZeroCalls EXCEPT !.list = 1, !.detail = got.requests], fs)

\* cache miss or refresh: the schedule page cannot be fetched, talks = []
SchedScrapeFails(a) ==
    /\ kind = "sched"
    /\ StartArgs(a)
    /\ a.refresh_cache \/ load_sched_cache(files, SchedUrl) = None
    /\ SchedContinue(<<>>, FALSE, a, [ZeroCalls EXCEPT !.list = 1], files)

\* a result dict numbered by the order in which the tasks finish
TaskResult_arrival(t, subtitles, summary) ==
    [pc |-> "done", video_id |-> tasks[t].video_id, subtitles |-> subtitles,
     result |-> Some(Record(1 + Cardinality({u \in 1..Len(tasks) : tasks[u].pc = "done"}),
                            talks[t].title, summary, Some(talks[t].sched_link)))]

\* process_video after the summary decision: the result dict
TaskResult(t, subtitles, summary) ==
    [pc |-> "done", video_id |-> tasks[t].video_id, subtitles |-> subtitles,
     result |-> Some(Record(t, talks[t].title, summary, Some(talks[t].sched_link)))]

\* The executor thread of task t finishes _download_subtitles_sync and the
\* coroutine runs on to its next suspension (summarize) or to its return.
TaskFetchDone(t, outcome) ==
    /\ pc = "gather"
    /\ t \in DOMAIN tasks
    /\ tasks[t].pc = "fetching"
    /\ LET video_id == tasks[t].video_id
           got == _download_subtitles_sync(files, video_id, outcome)
           subtitles == IF got.result = None THEN <<>> ELSE got.result[1]
           cached == IF args.use_summary_cache
                     THEN load_summary_cache(got.fs, video_id, args.summarizer)
                     ELSE None
       IN  /\ files' = got.fs
           /\ issued' = issued \cup {video_id}
           /\ pc' = IF got.raised THEN "raised" ELSE pc
           /\ IF got.raised
              THEN UNCHANGED <<tasks, calls, lock>>
              ELSE IF cached # None
              THEN /\ tasks' = [tasks EXCEPT ![t] = TaskResult(t, subtitles, cached[1])]
                   /\ calls' = [calls EXCEPT !.transcript = @ + got.fetched]
                   /\ lock' = lock
              ELSE IF ~ShouldSummarize(cached, subtitles)
              THEN /\ tasks' = [tasks EXCEPT ![t] = TaskResult(t, subtitles, <<>>)]
                   /\ calls' = [calls EXCEPT !.transcript = @ + got.fetched]
                   /\ lock' = lock
              ELSE /\ calls' = [calls EXCEPT !.transcript = @ + got.fetched,
                                             !.summarize = @ + 1]
                   /\ IF args.summarizer.sequential /\ ~LockFree(lock)
                      THEN /\ tasks' = [tasks EXCEPT ![t].pc = "lockwait",
                                                     ![t].subtitles = subtitles]
                           /\ lock' = lock
                      ELSE /\ tasks' = [tasks EXCEPT ![t].pc = "inflight",
                                                     ![t].subtitles = subtitles]
                           /\ lock' = IF args.summarizer.sequential THEN t ELSE lock
    /\ UNCHANGED <<worldVars, unitVars, prev, args, talks, used_cache, pos, prepared,
                   output, failed>>

\* async with self._lock: a waiting summarize call gets the lock
TaskLockAcquire(t) ==
    /\ pc = "gather"
    /\ t \in DOMAIN tasks
    /\ tasks[t].pc = "lockwait"
    /\ LockFree(lock)
    /\ lock' = t
    /\ tasks' = [tasks EXCEPT ![t].pc = "inflight"]
    /\ UNCHANGED <<files, worldVars, unitVars, prev, pc, args, talks, used_cache, pos,
                   prepared, output, calls, issued, failed>>

\* The backend answers task t: summarize returns (releasing the lock),
\* save_summary_cache, and process_video returns its result.
TaskSummarizeDone(t, outcome) ==
    /\ pc = "gather"
    /\ t \in DOMAIN tasks
    /\ tasks[t].pc = "inflight"
    /\ LET summary == summarize(args.summarizer, outcome)
       IN  /\ lock' = IF lock = t THEN 0 ELSE lock
           /\ failed' = IF outcome.ok THEN failed ELSE failed \cup {tasks[t].video_id}
           /\ IF summary = Raised
              THEN /\ pc' = "raised"
                   /\ UNCHANGED <<files, tasks>>
              ELSE /\ pc' = pc
                   /\ files' = save_summary_cache(files, tasks[t].video_id,
                                                  args.summarizer, summary)
                   /\ tasks' = [tasks EXCEPT ![t] = TaskResult(t, tasks[t].subtitles, summary)]
    /\ UNCHANGED <<worldVars, unitVars, prev, args, talks, used_cache, pos, prepared,
                   output, calls, issued>>

\* The output built from the gathered results, in task order
RECURSIVE GatherOutput(_, _, _, _)
GatherOutput(results, window, idx, out) ==
    IF idx > Len(results) THEN out
    ELSE IF results[idx].result = None
         THEN GatherOutput(results, window, idx + 1, out)
         ELSE LET result == [results[idx].result[1] EXCEPT
                                 !.event_type = window[idx].event_type,
                                 !.deck_url = window[idx].deck_url]
              IN  GatherOutput(results, window, idx + 1,
                               DictSet(out, window[idx].youtube_url, result))

\* asyncio.gather returns: every task is done; build and return output
SchedReturn ==
    /\ pc = "gather"
    /\ \A t \in DOMAIN tasks : tasks[t].pc = "done"
    /\ output' = GatherOutput(tasks, talks, 1, <<>>)
    /\ pc' = "done"
    /\ UNCHANGED <<files, worldVars, unitVars, prev, args, talks, used_cache, pos, prepared,
                   tasks, lock, calls, issued, failed>>

----------------------------------------------------------------------------
(* The pipeline: one orchestrator, called again and again *)

InitRun ==
    /\ files = <<>>
    /\ saved = <<>>
    /\ loaded = None
    /\ pc = "idle"
    /\ args = <<>>
    /\ talks = <<>>
    /\ used_cache = FALSE
    /\ pos = 0
    /\ prepared = <<>>
    /\ tasks = <<>>
    /\ lock = 0
    /\ output = <<>>
    /\ calls = ZeroCalls
    /\ issued = {}
    /\ failed = {}
    /\ prev = None
    /\ gemini = <<>>
    /\ fetch = None
    /\ ollama = <<>>
    /\ writer = None
    /\ detail = <<>>

InitWorld ==
    /\ \/ kind = "playlist" /\ playlist \in Playlists /\ event = <<>>
       \/ kind = "sched" /\ playlist = <<>> /\ event \in Events
    /\ backend \in PipelineSummarizers
    /\ disk = DiskOk

Init ==
    /\ InitRun
    /\ InitWorld
    /\ pinned = None

NextPlaylist ==
    \/ \E a \in PlaylistArgs : PlaylistFromCache(a)
    \/ \E a \in PlaylistArgs : PlaylistFetch(a)
    \/ \E a \in PlaylistArgs : PlaylistFetchFails(a)
    \/ Phase1Skip
    \/ \E o \in TranscriptOutcomes : Phase1Fetch(o)
    \/ Phase1End
    \/ Phase2Cached
    \/ \E o \in BackendOutcomes : Phase2Summarize(o)
    \/ Phase2Blank
    \/ PlaylistReturn

NextSched ==
    \/ \E a \in SchedArgs : SchedFromCache(a)
    \/ \E a \in SchedArgs : SchedScrape(a)
    \/ \E a \in SchedArgs : SchedScrapeFails(a)
    \/ \E t \in 1..MaxTalks, o \in TranscriptOutcomes : TaskFetchDone(t, o)
    \/ \E t \in 1..MaxTalks : TaskLockAcquire(t)
    \/ \E t \in 1..MaxTalks, o \in BackendOutcomes : TaskSummarizeDone(t, o)
    \/ SchedReturn

\* The process ends: only the cache directories outlive it.
ProcessExit ==
    /\ pc \in {"done", "raised"}
    /\ pc' = "idle"
    /\ args' = <<>>
    /\ talks' = <<>>
    /\ used_cache' = FALSE
    /\ pos' = 0
    /\ prepared' = <<>>
    /\ tasks' = <<>>
    /\ lock' = 0
    /\ output' = <<>>
    /\ calls' = ZeroCalls
    /\ issued' = {}
    /\ failed' = {}
    /\ prev' = IF pinned # None /\ pc = "done"
               THEN Some([output |-> output, left_in_cache |-> LeftInCache])
               ELSE None
    /\ UNCHANGED <<files, worldVars, unitVars>>

Next == NextPlaylist \/ NextSched \/ ProcessExit

Spec == Init /\ [][Next]_vars

\* The same command line, run again and again
InitRerun ==
    /\ InitRun
    /\ InitWorld
    /\ \E a \in SchedArgs :
         /\ kind = "playlist" => a \in PlaylistArgs
         /\ pinned = Some(a)

SpecRerun == InitRerun /\ [][Next]_vars

\* Cache directories in trouble: file writes fail in one of them (a full or
\* read-only volume), or ~/.cache/subtitles is missing and cannot be created
DiskStates ==
    {DiskOk,
     [nowrite |-> {"lists"}, nomkdir |-> FALSE],
     [nowrite |-> {"subtitles"}, nomkdir |-> FALSE],
     [nowrite |-> {"summaries"}, nomkdir |-> FALSE],
     [nowrite |-> {}, nomkdir |-> TRUE]}

\* The source-list record of the command line's source
SourceListPath ==
    IF kind = "playlist" THEN get_playlist_cache_path(PlaylistUrl)
    ELSE get_sched_cache_path(SchedUrl)

\* The pipeline on a troubled disk, the source-list record possibly cut short
\* by an earlier interrupted write; the command line, repeated from run to
\* run, asks for the whole source (no offset, no limit)
InitIO ==
    /\ saved = <<>>
    /\ loaded = None
    /\ pc = "idle"
    /\ args = <<>>
    /\ talks = <<>>
    /\ used_cache = FALSE
    /\ pos = 0
    /\ prepared = <<>>
    /\ tasks = <<>>
    /\ lock = 0
    /\ output = <<>>
    /\ calls = ZeroCalls
    /\ issued = {}
    /\ failed = {}
    /\ prev = None
    /\ gemini = <<>>
    /\ fetch = None
    /\ ollama = <<>>
    /\ writer = None
    /\ detail = <<>>
    /\ \/ kind = "playlist" /\ playlist \in Playlists /\ event = <<>>
       \/ kind = "sched" /\ playlist = <<>> /\ event \in Events
    /\ backend \in PipelineSummarizers
    /\ \E a \in SchedArgs :
         /\ kind = "playlist" => a \in PlaylistArgs
         /\ a.limit = 0 /\ a.offset = 0
         /\ pinned = Some(a)
    /\ disk \in DiskStates
    /\ files \in {<<>>, WriteFile(<<>>, SourceListPath, CorruptFile)}

SpecIO == InitIO /\ [][Next]_vars

\* A schedule whose entries all link the same recording (the talks of one
\* session published as a single video)
SharedEntry(i) ==
    [SchedEntry(i, 0) EXCEPT !.youtube_url = Some(WatchUrl(VideoId(1)))]

SharedEvents == {[i \in 1..MaxTalks |-> SharedEntry(i)]}

\* The pipeline on such a schedule, the same command line run again and again
InitShared ==
    /\ InitRun
    /\ \/ kind = "playlist" /\ playlist \in Playlists /\ event = <<>>
       \/ kind = "sched" /\ playlist = <<>> /\ event \in SharedEvents
    /\ backend \in PipelineSummarizers
    /\ disk = DiskOk
    /\ \E a \in SchedArgs :
         /\ kind = "playlist" => a \in PlaylistArgs
         /\ pinned = Some(a)

SpecShared == InitShared /\ [][Next]_vars

\* A link the detail page pattern youtube\.com/watch accepts although its
\* host is none of www.youtube.com, youtube.com and youtu.be
MobilePrefix == "https://m.youtube.com/watch?v="

\* A schedule whose entry mobile, if any, links its recording on the mobile site
MobileEntry(i, mobile) ==
    IF i = mobile
    THEN [SchedEntry(i, 0) EXCEPT !.youtube_url = Some(<<MobilePrefix>> \o VideoId(i))]
    ELSE SchedEntry(i, 0)

MobileEvents == {[i \in 1..MaxTalks |-> MobileEntry(i, mobile)] : mobile \in 0..MaxTalks}

\* The pipeline on such a schedule
InitMobile ==
    /\ InitRun
    /\ \/ kind = "playlist" /\ playlist \in Playlists /\ event = <<>>
       \/ kind = "sched" /\ playlist = <<>> /\ event \in MobileEvents
    /\ backend \in PipelineSummarizers
    /\ disk = DiskOk
    /\ pinned = None

SpecMobile == InitMobile /\ [][Next]_vars

----------------------------------------------------------------------------
(* SpecCache: the summary cache driven directly by saves and loads *)

MaxSaves == 3

KeyVideoIds == {VideoId(1), VideoId(2)}

\* Model names as given with --model
KeyModels == {<<"m", ":", "1">>, <<"m", "_", "1">>}

KeyLengths == {400, 800}

KeySummarizers ==
    {Summarizer("OllamaSummarizer", m, n, TRUE) : m \in KeyModels, n \in KeyLengths}

KeyTexts == {<<"s">>, <<"s", CR, LF, "t">>}

\* The identity of a summarizer: class, model, summary_length
Identity(summarizer) ==
    <<summarizer.cls, summarizer.model, summarizer.summary_length>>

InitCache ==
    /\ files = <<>>
    /\ saved = <<>>
    /\ loaded = None
    /\ gemini = <<>>
    /\ fetch = None
    /\ ollama = <<>>
    /\ writer = None
    /\ detail = <<>>
    /\ NoRun

SaveSummary(video_id, summarizer, summary) ==
    /\ Cardinality(DOMAIN saved) < MaxSaves
    /\ files' = save_summary_cache(files, video_id, summarizer, summary)
    /\ saved' = [k \in DOMAIN saved \cup {<<video_id, Identity(summarizer)>>} |->
                    IF k = <<video_id, Identity(summarizer)>> THEN summary ELSE saved[k]]
    /\ UNCHANGED <<loaded, worldVars, runVars, prev, gemini, fetch, writer, detail, ollama>>

LoadSummary(video_id, summarizer) ==
    /\ loaded' = Some([video_id |-> video_id, summarizer |-> summarizer,
                       result |-> load_summary_cache(files, video_id, summarizer)])
    /\ UNCHANGED <<files, saved, worldVars, runVars, prev, gemini, fetch, writer, detail, ollama>>

NextCache ==
    \/ \E v \in KeyVideoIds, s \in KeySummarizers, t \in KeyTexts : SaveSummary(v, s, t)
    \/ \E v \in KeyVideoIds, s \in KeySummarizers : LoadSummary(v, s)

SpecCache == InitCache /\ [][NextCache]_vars

----------------------------------------------------------------------------
(* SpecGemini: GeminiSummarizer.summarize, one invocation after another *)

\* str.lower() on the characters the error texts use
LowerChar(c) ==
    CASE c = "C" -> "c"
      [] c = "Q" -> "q"
      [] c = "R" -> "r"
      [] OTHER -> c

Lower(str) == [i \in 1..Len(str) |-> LowerChar(str[i])]

\* needle in str
Contains(str, needle) ==
    \E i \in 1..(Len(str) - Len(needle) + 1) :
        SubSeq(str, i, i + Len(needle) - 1) = needle

RetryIn == <<"r", "e", "t", "r", "y", " ", "i", "n">>

IsDigit(c) == \E d \in 1..Len(Digits) : Digits[d] = c

DigitValue(c) == (CHOOSE d \in 1..Len(Digits) : Digits[d] = c) - 1

\* the value of the digits of str from position i on
RECURSIVE DigitRun(_, _, _)
DigitRun(str, i, acc) ==
    IF i <= Len(str) /\ IsDigit(str[i])
    THEN DigitRun(str, i + 1, acc * 10 + DigitValue(str[i]))
    ELSE acc

\* re.search(r'retry in (\d+\.?\d*)', error_str.lower()): the delay of the
\* leftmost match, or None (whole seconds only)
SuggestedDelay(lowered) ==
    LET starts == {i \in 1..Len(lowered) :
                      /\ i + Len(RetryIn) + 1 <= Len(lowered)
                      /\ SubSeq(lowered, i, i + Len(RetryIn) - 1) = RetryIn
                      /\ lowered[i + Len(RetryIn)] = " "
                      /\ IsDigit(lowered[i + Len(RetryIn) + 1])}
    IN  IF starts = {} THEN None
        ELSE LET i == CHOOSE j \in starts : \A k \in starts : j <= k
             IN  Some(DigitRun(lowered, i + Len(RetryIn) + 1, 0))

\* The test the except clause applies to str(e)
IsRateLimitText(error_str) ==
    \/ Contains(error_str, <<"4", "2", "9">>)
    \/ Contains(Lower(error_str), <<"q", "u", "o", "t", "a">>)
    \/ Contains(Lower(error_str), <<"r", "a", "t", "e">>)

\* Exceptions generate_content raises: whether the backend refused the call
\* for its rate limit, and the text of the exception
GeminiErrors ==
    {[rate_limit |-> TRUE,  text |-> <<"4", "2", "9">>],
     [rate_limit |-> TRUE,  text |-> <<"Q", "u", "o", "t", "a">>],
     [rate_limit |-> TRUE,  text |-> <<"4", "2", "9", " ", "r", "e", "t", "r", "y", " ",
                                       "i", "n", " ", "7">>],
     [rate_limit |-> TRUE,  text |-> <<"4", "2", "9", " ", "R", "e", "t", "r", "y", " ",
                                       "i", "n", " ", "a">>],
     [rate_limit |-> FALSE, text |-> <<"5", "0", "0">>],
     [rate_limit |-> FALSE, text |-> <<"4", "0", "4", " ", "g", "e", "n", "e", "r", "a",
                                       "t", "e", "C", "o", "n", "t", "e", "n", "t">>]}

GeminiOutcomes ==
    {[ok |-> TRUE, text |-> <<"s">>, error |-> <<>>]}
    \cup {[ok |-> FALSE, text |-> <<>>, error |-> e] : e \in GeminiErrors}

max_retries == 3
base_delay == 2

RateLimitSentinel == <<"Summary unavailable - rate limit exceeded.">>

RECURSIVE Pow2(_)
Pow2(n) == IF n = 0 THEN 1 ELSE 2 * Pow2(n - 1)

\* retry_delay as the except clause computes it
\* a delay that does not grow with the attempt
RetryDelay_fixed(attempt, error_str) == base_delay

RetryDelay(attempt, error_str) ==
    LET suggested == IF Contains(Lower(error_str), RetryIn)
                     THEN SuggestedDelay(Lower(error_str))
                     ELSE None
    IN  IF suggested # None THEN suggested[1] ELSE base_delay * Pow2(attempt)

InitGemini ==
    /\ files = <<>>
    /\ saved = <<>>
    /\ loaded = None
    /\ fetch = None
    /\ ollama = <<>>
    /\ writer = None
    /\ detail = <<>>
    /\ NoRun
    /\ gemini = [pc |-> "idle", attempt |-> 0, calls |-> 0, errors |-> <<>>,
                 delays |-> <<>>, result |-> None]

\* summarize is called: the first pass of the for loop begins
GeminiStart ==
    /\ gemini.pc = "idle"
    /\ gemini' = [pc |-> "calling", attempt |-> 0, calls |-> 0, errors |-> <<>>,
                  delays |-> <<>>, result |-> None]
    /\ UNCHANGED <<files, cacheVars, fetch, writer, detail, worldVars, runVars, prev, ollama>>

\* self.model.generate_content(prompt) answers or raises
GeminiCall(outcome) ==
    /\ gemini.pc = "calling"
    /\ gemini' =
         IF outcome.ok
         THEN [gemini EXCEPT !.calls = @ + 1, !.pc = "returned",
                             !.result = Some(outcome.text)]
         ELSE LET error_str == outcome.error.text
              IN  IF IsRateLimitText(error_str) /\ gemini.attempt < max_retries - 1
                  THEN [gemini EXCEPT !.calls = @ + 1, !.pc = "sleeping",
                                      !.errors = Append(@, outcome.error),
                                      !.delays = Append(@, RetryDelay(gemini.attempt,
                                                                      error_str))]
                  ELSE [gemini EXCEPT !.calls = @ + 1, !.pc = "returned",
                                      !.errors = Append(@, outcome.error),
                                      !.result = Some(ErrorSentinel)]
    /\ UNCHANGED <<files, cacheVars, fetch, writer, detail, worldVars, runVars, prev, ollama>>

\* asyncio.sleep(retry_delay) is over; continue with the next pass, or leave
\* the loop when there is none
GeminiWake ==
    /\ gemini.pc = "sleeping"
    /\ gemini' =
         IF gemini.attempt + 1 < max_retries
         THEN [gemini EXCEPT !.attempt = @ + 1, !.pc = "calling"]
         ELSE [gemini EXCEPT !.pc = "returned", !.result = Some(RateLimitSentinel)]
    /\ UNCHANGED <<files, cacheVars, fetch, writer, detail, worldVars, runVars, prev, ollama>>

\* the caller has the result
GeminiReturn ==
    /\ gemini.pc = "returned"
    /\ gemini' = [gemini EXCEPT !.pc = "idle"]
    /\ UNCHANGED <<files, cacheVars, fetch, writer, detail, worldVars, runVars, prev, ollama>>

NextGemini ==
    \/ GeminiStart
    \/ \E o \in GeminiOutcomes : GeminiCall(o)
    \/ GeminiWake
    \/ GeminiReturn

SpecGemini == InitGemini /\ [][NextGemini]_vars

----------------------------------------------------------------------------
(* SpecFetch: the transcript fetcher called on one video after another *)

FetchVideoIds == {VideoId(1), VideoId(2)}

\* What api.fetch(video_id) may do: raise, or return a transcript of no, one
\* or two segments, a segment being text that may hold a line break
FetchOutcomes ==
    {[ok |-> FALSE, segments |-> <<>>],
     [ok |-> TRUE, segments |-> <<>>],
     [ok |-> TRUE, segments |-> <<<<"a">>>>],
     [ok |-> TRUE, segments |-> <<<<"a">>, <<"b">>>>],
     [ok |-> TRUE, segments |-> <<<<"a", LF, "b">>, <<"c">>>>]}

InitFetch ==
    /\ files = <<>>
    /\ saved = <<>>
    /\ loaded = None
    /\ gemini = <<>>
    /\ fetch = None
    /\ ollama = <<>>
    /\ writer = None
    /\ detail = <<>>
    /\ NoRun

\* _download_subtitles_sync(video_id) with the external service answering outcome
Download(video_id, outcome) ==
    /\ LET got == _download_subtitles_sync(files, video_id, outcome)
       IN  /\ files' = got.fs
           /\ fetch' = Some([video_id |-> video_id, outcome |-> outcome,
                             before |-> load_subtitle_cache(files, video_id),
                             result |-> got.result, fetched |-> got.fetched])
    /\ UNCHANGED <<cacheVars, gemini, writer, detail, worldVars, runVars, prev, ollama>>

NextFetch == \E v \in FetchVideoIds, o \in FetchOutcomes : Download(v, o)

SpecFetch == InitFetch /\ [][NextFetch]_vars

----------------------------------------------------------------------------
(* SpecDetail: _fetch_talk_detail called on one detail page after another *)

max_attempts == 3

\* asyncio.sleep(1.0) between two attempts, in seconds
retry_sleep == 1

\* What the detail page of schedule entry i may hold once it is rendered: a
\* talk with or without a YouTube link
DetailPages(i) == {SchedEntry(i, 0), SchedEntry(i, i)}

\* What requests.get(sched_link, timeout=15) may do for entry i: raise, or
\* return a response whose HTML has or lacks the element of class "name"
DetailResponses(i) ==
    {[ok |-> FALSE, title |-> FALSE, page |-> SchedEntry(i, 0)]}
    \cup {[ok |-> TRUE, title |-> t, page |-> p] : t \in BOOLEAN, p \in DetailPages(i)}

\* a loop with one more pass
MoreAttempts_four(attempt) == attempt < max_attempts + 1

\* if attempt < max_attempts
MoreAttempts(attempt) == attempt < max_attempts

InitDetail ==
    /\ files = <<>>
    /\ saved = <<>>
    /\ loaded = None
    /\ gemini = <<>>
    /\ fetch = None
    /\ ollama = <<>>
    /\ writer = None
    /\ NoRun
    /\ detail = [pc |-> "idle", entry |-> 1, attempt |-> 0, requests |-> 0,
                 responses |-> <<>>, sleeps |-> <<>>, result |-> None]

\* _fetch_talk_detail is called with the link of schedule entry i: the first
\* pass of the for loop begins
DetailStart(i) ==
    /\ detail.pc = "idle"
    /\ detail' = [pc |-> "requesting", entry |-> i, attempt |-> 1, requests |-> 0,
                  responses |-> <<>>, sleeps |-> <<>>, result |-> None]
    /\ UNCHANGED <<files, cacheVars, gemini, fetch, writer, worldVars, runVars, prev, ollama>>

\* requests.get answers or raises; the page is parsed and the title looked up
DetailRequest(response) ==
    /\ detail.pc = "requesting"
    /\ detail' =
         LET got == [detail EXCEPT !.requests = @ + 1, !.responses = Append(@, response)]
         IN  IF ~response.ok
             THEN [got EXCEPT !.pc = "returned", !.result = None]
             ELSE IF response.title
             THEN [got EXCEPT !.pc = "returned", !.result = _fetch_talk_detail(response.page)]
             ELSE IF MoreAttempts(detail.attempt)
             THEN [got EXCEPT !.pc = "sleeping", !.sleeps = Append(@, retry_sleep)]
             ELSE [got EXCEPT !.pc = "returned", !.result = None]
    /\ UNCHANGED <<files, cacheVars, gemini, fetch, writer, worldVars, runVars, prev, ollama>>

\* asyncio.sleep(1.0) is over: the next pass of the loop
DetailWake ==
    /\ detail.pc = "sleeping"
    /\ detail' = [detail EXCEPT !.attempt = @ + 1, !.pc = "requesting"]
    /\ UNCHANGED <<files, cacheVars, gemini, fetch, writer, worldVars, runVars, prev, ollama>>

\* the scrape loop has the result
DetailReturn ==
    /\ detail.pc = "returned"
    /\ detail' = [detail EXCEPT !.pc = "idle"]
    /\ UNCHANGED <<files, cacheVars, gemini, fetch, writer, worldVars, runVars, prev, ollama>>

NextDetail ==
    \/ \E i \in 1..MaxTalks : DetailStart(i)
    \/ \E r \in DetailResponses(detail.entry) : DetailRequest(r)
    \/ DetailWake
    \/ DetailReturn

SpecDetail == InitDetail /\ [][NextDetail]_vars

----------------------------------------------------------------------------
(* SpecOllama: summarize calls of concurrent tasks on one OllamaSummarizer *)
(* in sequential mode (self._lock is an asyncio.Lock)                      *)

MaxCallers == 3

Callers == 1..MaxCallers

FormatSentinel == <<"Summary unavailable: unexpected Ollama response format.">>

\* content.strip() == ""
IsBlank(text) == \A i \in 1..Len(text) : text[i] = " "

\* What self._client.post (timeout=60.0) and the response may give: an
\* exception (connection error, timeout, HTTP error status, invalid JSON), or
\* a JSON body whose message content is missing, empty, blank or a text
OllamaOutcomes ==
    {[ok |-> FALSE, content |-> None]}
    \cup {[ok |-> TRUE, content |-> c] :
             c \in {None, Some(<<>>), Some(<<" ">>), Some(<<"s">>)}}

\* _summarize_once: what it returns for the backend's answer
_summarize_once(outcome) ==
    IF ~outcome.ok THEN ErrorSentinel
    ELSE IF outcome.content # None /\ ~IsBlank(outcome.content[1])
         THEN outcome.content[1]
         ELSE FormatSentinel

\* a lock that stays held when the backend request failed
LockOnExit_leak(holder, outcome) == IF outcome.ok THEN 0 ELSE holder

\* async with self._lock: the lock is released on every way out of the
\* block, by return as well as by exception
LockOnExit(holder, outcome) == 0

InitOllama ==
    /\ files = <<>>
    /\ saved = <<>>
    /\ loaded = None
    /\ gemini = <<>>
    /\ fetch = None
    /\ writer = None
    /\ detail = <<>>
    /\ NoRun
    /\ ollama = [pc |-> [c \in Callers |-> "idle"],
                 waited |-> [c \in Callers |-> FALSE],
                 result |-> [c \in Callers |-> None],
                 lock |-> 0, waiters |-> <<>>]

\* Task c calls summarize: Lock.acquire takes a free lock that nobody waits
\* for at once; otherwise the task joins the queue of waiters
OllamaCall(c) ==
    /\ ollama.pc[c] = "idle"
    /\ ollama' =
         IF ollama.lock = 0 /\ ollama.waiters = <<>>
         THEN [ollama EXCEPT !.pc[c] = "posting", !.lock = c]
         ELSE [ollama EXCEPT !.pc[c] = "waiting", !.waited[c] = TRUE,
                             !.waiters = Append(@, c)]
    /\ UNCHANGED <<files, cacheVars, gemini, fetch, writer, detail, worldVars, runVars, prev>>

\* The lock is free and task c is the first waiter: it is woken and takes it
OllamaAcquire(c) ==
    /\ ollama.pc[c] = "waiting"
    /\ ollama.lock = 0
    /\ ollama.waiters # <<>> /\ Head(ollama.waiters) = c
    /\ ollama' = [ollama EXCEPT !.pc[c] = "posting", !.lock = c, !.waiters = Tail(@)]
    /\ UNCHANGED <<files, cacheVars, gemini, fetch, writer, detail, worldVars, runVars, prev>>

\* The backend answers task c or the request fails: _summarize_once returns,
\* the async with block is left and summarize returns
OllamaAnswer(c, outcome) ==
    /\ ollama.pc[c] = "posting"
    /\ ollama' = [ollama EXCEPT !.pc[c] = "returned",
                                !.result[c] = Some(_summarize_once(outcome)),
                                !.lock = LockOnExit(c, outcome)]
    /\ UNCHANGED <<files, cacheVars, gemini, fetch, writer, detail, worldVars, runVars, prev>>

\* The task has its summary; it may call summarize again for another talk
OllamaReturn(c) ==
    /\ ollama.pc[c] = "returned"
    /\ ollama' = [ollama EXCEPT !.pc[c] = "idle", !.waited[c] = FALSE,
                                !.result[c] = None]
    /\ UNCHANGED <<files, cacheVars, gemini, fetch, writer, detail, worldVars, runVars, prev>>

NextOllama ==
    \/ \E c \in Callers : OllamaCall(c)
    \/ \E c \in Callers : OllamaAcquire(c)
    \/ \E c \in Callers : \E o \in OllamaOutcomes : OllamaAnswer(c, o)
    \/ \E c \in Callers : OllamaReturn(c)

\* The event loop runs every task that is ready, and the HTTP client ends
\* every request within its timeout
OllamaFairness ==
    \A c \in Callers :
        /\ WF_vars(OllamaAcquire(c))
        /\ WF_vars(\E o \in OllamaOutcomes : OllamaAnswer(c, o))

SpecOllama == InitOllama /\ [][NextOllama]_vars /\ OllamaFairness

----------------------------------------------------------------------------
(* SpecWrite: cache files written by write_text / json.dump while another  *)
(* thread or process loads them                                            *)

\* The four cache records of one talk and its source
WriteCaches == {"subtitles", "summaries", "playlist", "sched"}

WriteSummarizer == Summarizer("OllamaSummarizer", <<"m">>, 400, TRUE)

\* Transcripts and summaries handed to save_subtitle_cache / save_summary_cache
WriteTexts == {<<"a", "b">>, <<"c">>}

\* Source lists handed to save_playlist_cache / save_sched_cache
WriteLists == {<<>>, <<"v1">>, <<"v1", "v2">>}

\* json.dump(list, f): "[", the dicts separated by ",", "]"; a dict is
\* written as "{", its members, "}"
RECURSIVE JsonItems(_)
JsonItems(list) ==
    IF list = <<>> THEN <<>>
    ELSE <<"{", Head(list), "}">>
         \o (IF Tail(list) = <<>> THEN <<>> ELSE <<",">>) \o JsonItems(Tail(list))

JsonDump(list) == <<"[">> \o JsonItems(list) \o <<"]">>

\* json.load(f): the list when the text is one whole document, None when
\* JSONDecodeError is raised
JsonLoads(text) ==
    IF Len(text) < 2 \/ text[1] # "[" \/ text[Len(text)] # "]" THEN None
    ELSE LET inside == SubSeq(text, 2, Len(text) - 1)
             n == (Len(inside) + 1) \div 4
         IN  IF inside = <<>> THEN Some(<<>>)
             ELSE IF /\ Len(inside) = 4 * n - 1
                     /\ \A k \in 1..n :
                          /\ inside[4 * k - 3] = "{"
                          /\ inside[4 * k - 2] \notin {"[", "]", "{", "}", ","}
                          /\ inside[4 * k - 1] = "}"
                          /\ k < n => inside[4 * k] = ","
                  THEN Some([k \in 1..n |-> inside[4 * k - 2]])
                  ELSE None

\* The JSON file holding this text, as the loaders see it
JsonOnDisk(text) ==
    IF JsonLoads(text) = None THEN CorruptFile ELSE JsonFile(JsonLoads(text)[1])

WritePath(cache) ==
    CASE cache = "subtitles" -> get_subtitle_cache_path(VideoId(1))
      [] cache = "summaries" -> get_summary_cache_path(VideoId(1), WriteSummarizer)
      [] cache = "playlist" -> get_playlist_cache_path(PlaylistUrl)
      [] cache = "sched" -> get_sched_cache_path(SchedUrl)

WritePayloads(cache) ==
    IF cache \in {"subtitles", "summaries"} THEN WriteTexts ELSE WriteLists

\* The characters the save hands to the file object
WriteData(cache, payload) ==
    IF cache \in {"subtitles", "summaries"} THEN WriteText(payload) ELSE JsonDump(payload)

\* The file when the first n characters have reached it
FileWithPrefix(cache, data, n) ==
    IF cache \in {"subtitles", "summaries"} THEN Take(data, n) ELSE JsonOnDisk(Take(data, n))

InitWrite ==
    /\ files = <<>>
    /\ saved = <<>>
    /\ loaded = None
    /\ gemini = <<>>
    /\ fetch = None
    /\ ollama = <<>>
    /\ writer = None
    /\ detail = <<>>
    /\ NoRun

\* open(cache_path, "w"), also inside write_text: the file is created or cut
\* to length 0 before anything is written
WriteOpen(cache, payload) ==
    /\ writer = None
    /\ writer' = Some([cache |-> cache, payload |-> payload,
                       data |-> WriteData(cache, payload), written |-> 0])
    /\ files' = WriteFile(files, WritePath(cache), FileWithPrefix(cache, <<>>, 0))
    /\ UNCHANGED <<saved, loaded, gemini, fetch, detail, worldVars, runVars, prev, ollama>>

\* The file object flushes some more of its buffer to the file
WriteFlush(k) ==
    /\ writer # None
    /\ LET w == writer[1]
       IN  /\ w.written + k <= Len(w.data)
           /\ writer' = Some([w EXCEPT !.written = @ + k])
           /\ files' = WriteFile(files, WritePath(w.cache),
                                 FileWithPrefix(w.cache, w.data, w.written + k))
    /\ UNCHANGED <<saved, loaded, gemini, fetch, detail, worldVars, runVars, prev, ollama>>

\* The with block / write_text closes the file: everything has been written
WriteClose ==
    /\ writer # None
    /\ writer[1].written = Len(writer[1].data)
    /\ writer' = None
    /\ UNCHANGED <<files, saved, loaded, gemini, fetch, detail, worldVars, runVars, prev, ollama>>

\* The write ends early: the process is killed, or write raises (a full
\* volume) and the except clause of the save prints the error; the file
\* stays as far as it got
WriteInterrupted ==
    /\ writer # None
    /\ writer[1].written < Len(writer[1].data)
    /\ writer' = None
    /\ UNCHANGED <<files, saved, loaded, gemini, fetch, detail, worldVars, runVars, prev, ollama>>

\* A load of the record, from an executor thread or another process, at any
\* moment of the write
ReadCache(cache) ==
    /\ loaded' = Some([cache |-> cache,
                       writing |-> writer # None /\ writer[1].cache = cache,
                       result |-> CASE cache = "subtitles" ->
                                         load_subtitle_cache(files, VideoId(1))
                                    [] cache = "summaries" ->
                                         load_summary_cache(files, VideoId(1), WriteSummarizer)
                                    [] cache = "playlist" ->
                                         load_playlist_cache(files, PlaylistUrl)
                                    [] cache = "sched" ->
                                         load_sched_cache(files, SchedUrl)])
    /\ UNCHANGED <<files, saved, writer, gemini, fetch, detail, worldVars, runVars, prev, ollama>>

NextWrite ==
    \/ \E c \in WriteCaches : \E p \in WritePayloads(c) : WriteOpen(c, p)
    \/ \E k \in 1..2 : WriteFlush(k)
    \/ WriteClose
    \/ WriteInterrupted
    \/ \E c \in WriteCaches : ReadCache(c)

SpecWrite == InitWrite /\ [][NextWrite]_vars

----------------------------------------------------------------------------
\* C2: every load_summary_cache(id, s') after save_summary_cache(id, s, text) with
\* s' of the same identity as s returns exactly text, whatever saves for other
\* (id, identity) pairs came in between.
C2_RoundTrip ==
    \A k \in DOMAIN saved :
        \A s \in KeySummarizers :
            Identity(s) = k[2] => load_summary_cache(files, k[1], s) = Some(saved[k])

\* C3: the summary cache path is injective on (talk id, class, model,
\* summary_length): two saved pairs that differ never share a record.
C3_KeyInjective ==
    \A v1 \in KeyVideoIds, v2 \in KeyVideoIds, s1 \in KeySummarizers, s2 \in KeySummarizers :
        (/\ <<v1, Identity(s1)>> \in DOMAIN saved
         /\ <<v2, Identity(s2)>> \in DOMAIN saved
         /\ get_summary_cache_path(v1, s1) = get_summary_cache_path(v2, s2))
        => (v1 = v2 /\ Identity(s1) = Identity(s2))

----------------------------------------------------------------------------
(* The talks of the current window, as the claims name them *)

WindowId(i) ==
    IF kind = "playlist" THEN talks[i].id ELSE extract_video_id(talks[i].youtube_url)[1]

WindowKey(i) ==
    IF kind = "playlist" THEN talks[i].indexed_url ELSE talks[i].youtube_url

NoCacheBust == ~args.refresh_cache /\ args.use_summary_cache

----------------------------------------------------------------------------
\* C1 (as stated): a second run with identical inputs and no cache-bust flags
\* returns the records of the first run and issues no external call, whatever
\* the first run's external calls did and for every offset and limit.
C1_RerunIdentical ==
    (pc = "done" /\ prev # None /\ NoCacheBust)
    => (output = prev[1].output /\ calls = ZeroCalls)

\* C1 (amended): a second run with identical inputs and no cache-bust flags
\* returns the records of the first run and issues no external call, provided
\* the first run left in the caches the source list, a transcript for every
\* talk it processed and every summary it returned.
C1_RerunIdenticalWhenCached ==
    (pc = "done" /\ prev # None /\ NoCacheBust /\ prev[1].left_in_cache)
    => (output = prev[1].output /\ calls = ZeroCalls)

C1_Witness ==
    /\ pc = "done" /\ prev # None /\ NoCacheBust /\ prev[1].left_in_cache
    /\ args.summarize
    /\ Len(output) >= 2
    /\ \E i \in 1..Len(output) : output[i].value.summary \in SummaryTexts

\* C4: no summarizer.summarize call starts before the transcript fetch of
\* every talk of the window has completed.
C4_FetchesBeforeSummaries ==
    calls.summarize > 0
    => (pc # "phase1" /\ \A t \in DOMAIN tasks : tasks[t].pc # "fetching")

\* C5: a failing summarizer backend call is not propagated: the orchestrator
\* returns, the talk's record carries the sentinel string, and every talk of
\* the window that was processed has its record in the returned mapping.
C5_FailureContained ==
    /\ pc # "raised"
    /\ (pc = "done" /\ args.summarize)
       => \A i \in 1..Len(talks) :
            (kind = "playlist" /\ (talks[i].duration > 0 /\ talks[i].duration < 120))
            \/ (/\ HasKey(output, WindowKey(i))
                /\ WindowId(i) \in failed
                   => Get(output, WindowKey(i)).summary = ErrorSentinel)

C5_Witness ==
    /\ pc = "done"
    /\ failed # {}
    /\ Len(output) >= 2
    /\ \E i \in 1..Len(output) : output[i].value.summary \in SummaryTexts

\* C6: no summary cache record holds the text of a failed summarization.
C6_NoSentinelCached ==
    \A p \in DOMAIN files : Head(p) = Head(SummaryDir) => files[p] # ErrorSentinel

\* C7: a playlist video with 0 < duration < 120 gets no transcript fetch and no
\* record; one with duration 0 or >= 120 inside the limit window gets a record.
C7_DurationFilter ==
    (kind = "playlist" /\ pc = "done")
    => \A i \in 1..Len(talks) :
         LET d == talks[i].duration
         IN  IF 0 < d /\ d < 120
             THEN talks[i].id \notin issued /\ ~HasKey(output, talks[i].indexed_url)
             ELSE HasKey(output, talks[i].indexed_url)

C7_Witness ==
    /\ kind = "playlist" /\ pc = "done"
    /\ \E i \in 1..Len(talks), j \in 1..Len(talks) :
         /\ talks[i].duration = 119
         /\ talks[j].duration = 120
         /\ HasKey(output, talks[j].indexed_url)

\* The talks [k : k+m] of a list, by position
Slice(list, k, m) ==
    LET n == IF Len(list) - k < m THEN Len(list) - k ELSE m
    IN  [i \in 1..n |-> list[k + i].youtube_url]

\* C8 (as stated): served from a cached list of N talks with offset k <= N and
\* limit m >= 0, the talks returned are the cached list sliced [k : k+m].
C8_CachedSlice ==
    (kind = "sched" /\ pc = "done" /\ used_cache)
    => LET cached == load_sched_cache(files, SchedUrl)[1]
       IN  args.offset <= Len(cached)
           => Keys(output) = Slice(cached, args.offset, args.limit)

\* C8 (amended): served from a cached list of N talks with offset k <= N, the
\* talks returned are the cached list sliced [k : k+m] for a limit m > 0, and
\* the whole list from k on, [k :], for m = 0.
C8_CachedSlicePositiveLimit ==
    (kind = "sched" /\ pc = "done" /\ used_cache)
    => LET cached == load_sched_cache(files, SchedUrl)[1]
       IN  args.offset <= Len(cached)
           => Keys(output) = Slice(cached, args.offset,
                                   IF args.limit > 0 THEN args.limit ELSE Len(cached))

C8_Witness ==
    /\ kind = "sched" /\ pc = "done" /\ used_cache
    /\ args.offset = 1 /\ args.limit = 1
    /\ Len(load_sched_cache(files, SchedUrl)[1]) = 2
    /\ Len(output) = 1

\* C9: a sched source-list record, when it exists, holds the complete set of
\* video-bearing talks of the event: never a list cut by an offset or a limit.
C9_CacheComplete ==
    (kind = "sched" /\ load_sched_cache(files, SchedUrl) # None)
    => load_sched_cache(files, SchedUrl)[1] = scrape_sched_talks_async(event, 0, 0).talks

\* C10: with a sequential OllamaSummarizer at most one backend request is in
\* flight at any time.
C10_OneInFlight ==
    (backend # <<>> /\ backend.sequential)
    => Cardinality({t \in DOMAIN tasks : tasks[t].pc = "inflight"}) <= 1

C10_Witness ==
    /\ backend.sequential
    /\ \E t \in DOMAIN tasks, u \in DOMAIN tasks :
         tasks[t].pc = "inflight" /\ tasks[u].pc = "lockwait"

----------------------------------------------------------------------------
\* C11: GeminiSummarizer.summarize makes at most 3 backend calls; an error that
\* is not a rate-limit error is the last one of its invocation, which ends at
\* once with the generic sentinel, so a further call follows rate-limit errors
\* only.
C11_RetryOnlyRateLimit ==
    /\ gemini.calls <= 3
    /\ \A i \in 1..Len(gemini.errors) :
         ~gemini.errors[i].rate_limit
         => (/\ i = Len(gemini.errors)
             /\ gemini.pc \in {"returned", "idle"}
             /\ gemini.result = Some(ErrorSentinel))

\* C12: when all 3 attempts fail with a rate-limit error the call returns the
\* rate-limit sentinel.
C12_RateLimitSentinel ==
    (/\ gemini.pc = "returned"
     /\ Len(gemini.errors) = 3
     /\ \A i \in 1..3 : gemini.errors[i].rate_limit)
    => gemini.result = Some(RateLimitSentinel)

\* The segments of a transcript joined by single spaces
SpaceJoined(segments) ==
    IF segments = <<>> THEN <<>>
    ELSE LET RECURSIVE Rest(_)
             Rest(i) == IF i > Len(segments) THEN <<>>
                        ELSE <<" ">> \o segments[i] \o Rest(i + 1)
         IN  segments[1] \o Rest(2)

\* C13: with a transcript record for the id the fetcher makes no external call
\* and returns the cached text; on a miss with a successful external fetch it
\* returns the segments joined by single spaces and leaves that text in the
\* transcript cache under the id.
C13_CacheFirst ==
    fetch # None
    => LET f == fetch[1]
       IN  /\ f.before # None => (f.fetched = 0 /\ f.result = f.before)
           /\ (f.before = None /\ f.outcome.ok)
              => (/\ f.fetched = 1
                  /\ f.result = Some(SpaceJoined(f.outcome.segments))
                  /\ load_subtitle_cache(files, f.video_id) = f.result)

C13_Witness ==
    /\ fetch # None
    /\ fetch[1].before = Some(<<"a", " ", "b">>)
    /\ fetch[1].outcome.ok
    /\ fetch[1].fetched = 0
    /\ fetch[1].result = Some(<<"a", " ", "b">>)

\* Talk i of the window went through the transcript fetcher and got no text
NoTranscript(i) ==
    IF kind = "playlist"
    THEN \E j \in 1..Len(prepared) : prepared[j].index = i /\ prepared[j].subtitles = <<>>
    ELSE i \in DOMAIN tasks /\ tasks[i].pc = "done" /\ tasks[i].subtitles = <<>>

\* C14: a talk whose transcript fetch fails is not skipped: its record carries
\* the cached summary when the summary cache is enabled and holds one, otherwise
\* the empty string; and the orchestrator raises only where a cache directory
\* cannot be created, never for the failed fetch.
C14_NoTranscriptStillEmitted ==
    /\ pc = "raised" => disk.nomkdir
    /\ (pc = "done" /\ args.summarize)
       => \A i \in 1..Len(talks) :
            NoTranscript(i)
            => (/\ HasKey(output, WindowKey(i))
                /\ LET cached == load_summary_cache(files, WindowId(i), args.summarizer)
                   IN  Get(output, WindowKey(i)).summary =
                          IF args.use_summary_cache /\ cached # None
                          THEN cached[1] ELSE <<>>)

C14_Witness ==
    /\ pc = "done" /\ args.summarize
    /\ \E i \in 1..Len(talks), j \in 1..Len(talks) :
         /\ NoTranscript(i)
         /\ Get(output, WindowKey(i)).summary \in SummaryTexts
         /\ NoTranscript(j)
         /\ Get(output, WindowKey(j)).summary = <<>>

\* C15: at the end of a run with refresh_cache whose discovery succeeded, the
\* source was asked once and the source-list record holds the list just
\* discovered.
C15_RefreshOverwrites ==
    (pc = "done" /\ args.refresh_cache /\ talks # <<>>)
    => /\ calls.list = 1
       /\ IF kind = "playlist"
          THEN load_playlist_cache(files, PlaylistUrl) = Some(Videos(playlist))
          ELSE load_sched_cache(files, SchedUrl)
                 = Some(scrape_sched_talks_async(event, args.limit, args.offset).talks)

\* Talk i of the window went through the transcript fetcher and got text
HasTranscript(i) ==
    IF kind = "playlist"
    THEN \E j \in 1..Len(prepared) : prepared[j].index = i /\ prepared[j].subtitles # <<>>
    ELSE i \in DOMAIN tasks /\ tasks[i].pc = "done" /\ tasks[i].subtitles # <<>>

\* C16: with use_summary_cache false every talk with a transcript gets a
\* summarizer call of its own, its record carries what that call returned, and
\* the summary cache record of the talk holds that text afterwards.
C16_SummaryCacheBypassed ==
    (pc = "done" /\ args.summarize /\ ~args.use_summary_cache)
    => /\ calls.summarize = Cardinality({i \in 1..Len(talks) : HasTranscript(i)})
       /\ \A i \in 1..Len(talks) :
            HasTranscript(i)
            => LET summary == Get(output, WindowKey(i)).summary
               IN  /\ IF WindowId(i) \in failed
                      THEN summary = ErrorSentinel
                      ELSE summary \in SummaryTexts
                   /\ load_summary_cache(files, WindowId(i), args.summarizer) = Some(summary)

C16_Witness ==
    /\ pc = "done" /\ args.summarize /\ ~args.use_summary_cache
    /\ prev # None
    /\ \E i \in 1..Len(output) :
         /\ HasKey(prev[1].output, output[i].key)
         /\ Get(prev[1].output, output[i].key).summary = ErrorSentinel
         /\ output[i].value.summary \in SummaryTexts

\* C17: no failure of cache I/O makes the orchestrator raise.
C17_NeverAborts == pc # "raised"

\* C18 (as stated): a run whose discovery asked the source and found no talk
\* returns an empty mapping at once, makes no transcript or summarizer call and
\* writes nothing to the cache.
C18_DiscoveryFailure ==
    [][(pc = "idle" /\ calls'.list = 1 /\ talks' = <<>>)
       => (/\ pc' = "done"
           /\ output' = <<>>
           /\ calls'.transcript = 0 /\ calls'.summarize = 0
           /\ files' = files)]_vars

\* C18 (amended): a run whose discovery failed (playlist extraction raises or
\* its result has no 'entries'; the schedule page is unreachable or yields no
\* video-bearing talk) returns an empty mapping at once, makes no transcript or
\* summarizer call and writes nothing to the cache.
C18_DiscoveryFailureNoRecord ==
    [][(pc = "idle" /\ pc' = "done" /\ calls'.list = 1 /\ talks' = <<>>)
       => (/\ output' = <<>>
           /\ calls'.transcript = 0 /\ calls'.summarize = 0
           /\ files' = files)]_vars

C18_Witness ==
    /\ pc = "done" /\ calls.list = 1 /\ talks = <<>> /\ output = <<>>
    /\ kind = "sched" /\ calls.detail > 0
    /\ load_sched_cache(files, SchedUrl) = None

\* The descriptors of the source in discovery order
Discovered ==
    IF kind = "playlist" THEN Videos(playlist)
    ELSE scrape_sched_talks_async(event, 0, 0).talks

\* C19: the index of every returned record is the position of its talk in
\* discovery order.
C19_IndexIsDiscoveryOrder ==
    pc = "done"
    => \A i \in 1..Len(output) :
         \E p \in 1..Len(Discovered) :
            /\ Discovered[p].title = output[i].value.title
            /\ output[i].value.index = p

\* The video-bearing entries among the first j schedule entries after offset k
VideoBearing(k, j) ==
    Cardinality({x \in (k + 1)..(k + j) : x <= Len(event) /\ event[x].youtube_url # None})

\* C20: with a limit m > 0 process_sched_talks returns at most m records, from
\* the cache the first m after the offset, and a fresh scrape requests a detail
\* page only while fewer than m video-bearing talks are collected.
C20_LimitBounds ==
    (kind = "sched" /\ pc = "done" /\ args.limit > 0)
    => /\ Len(output) <= args.limit
       /\ used_cache
          => Keys(output) = Slice(load_sched_cache(files, SchedUrl)[1],
                                  args.offset, args.limit)
       /\ (~used_cache /\ calls.detail > 0)
          => /\ VideoBearing(args.offset, calls.detail - 1) < args.limit
             /\ args.offset + calls.detail <= Len(event)

C20_Witness ==
    /\ kind = "sched" /\ pc = "done" /\ args.limit = 1 /\ ~used_cache
    /\ VideoBearing(0, Len(event)) = 2
    /\ calls.detail = 1
    /\ Len(output) = 1

----------------------------------------------------------------------------
\* C21: a load of a cache record (transcript, summary, source list) returns
\* a miss or a complete payload that a save was given, never part of one,
\* at any moment of a write and after a write that ended early.
C21_AtomicWrite ==
    loaded # None =>
        \/ loaded[1].result = None
        \/ loaded[1].result[1] \in WritePayloads(loaded[1].cache)

\* Schedule entry i has a detail page without a YouTube link or embed
NoVideo(i) == event[i].youtube_url = None

\* The talk dict or record r stems from schedule entry i
FromEntry(r, i) ==
    \/ r.title = event[i].title
    \/ r.sched_link \in {event[i].sched_link, Some(event[i].sched_link)}

\* C22: a schedule entry whose detail page has no YouTube link and no YouTube
\* embed is in no cached talk list, in no talk list of a run and in no
\* mapping process_sched_talks builds, whatever its title and description.
C22_NoVideoDropped ==
    kind = "sched" =>
        \A i \in 1..Len(event) :
            NoVideo(i) =>
                /\ LET cached == load_sched_cache(files, SchedUrl)
                   IN  cached # None => \A j \in 1..Len(cached[1]) : ~FromEntry(cached[1][j], i)
                /\ \A j \in 1..Len(talks) : ~FromEntry(talks[j], i)
                /\ \A j \in 1..Len(output) :
                     /\ ~FromEntry(output[j].value, i)
                     /\ output[j].value.summary # event[i].description

\* A fresh scrape requested the detail page of an entry without a video,
\* cached the talks it found and returned their records
C22_Witness ==
    /\ kind = "sched" /\ pc = "done" /\ ~used_cache /\ args.offset = 0
    /\ \E i \in 1..Len(event) : NoVideo(i) /\ calls.detail >= i
    /\ load_sched_cache(files, SchedUrl) # None
    /\ output # <<>>

\* The talks of the window whose transcript fetch has been handed to the
\* executor and has not returned. process_playlist awaits each fetch inside
\* its loop, so between two of its steps none is outstanding.
FetchesInFlight ==
    IF kind = "sched" THEN {t \in 1..Len(tasks) : tasks[t].pc = "fetching"} ELSE {}

\* C23: transcript fetches for different talks never overlap: at most one
\* fetch of a run is outstanding at any time, in process_playlist and in
\* process_sched_talks.
C23_Phase1Sequential == Cardinality(FetchesInFlight) <= 1

\* The talks whose summary step the running orchestrator has to perform
SummaryTalks ==
    IF kind = "sched" THEN 1..Len(tasks)
    ELSE IF pc \in {"phase2", "done"} THEN 1..Len(prepared) ELSE {}

\* The summary step of talk i has begun: in process_sched_talks its
\* coroutine was handed to asyncio.gather; in process_playlist the for loop
\* of phase 2 has reached item i
SummaryStarted(i) ==
    IF kind = "sched" THEN i \in DOMAIN tasks ELSE i < pos

\* The summary step of talk i has finished
SummaryCompleted(i) ==
    IF kind = "sched" THEN tasks[i].pc = "done" ELSE i < pos

\* C24: phase 2 starts one summary task per prepared talk without a cap, so
\* once a summarizer call has been made no talk's summary step has been
\* awaited to completion before the step of every other prepared talk was
\* started, and the orchestrator returns only when all of them have completed.
C24_FanOut ==
    /\ calls.summarize > 0
       => \A i \in SummaryTalks, j \in SummaryTalks : SummaryCompleted(i) => SummaryStarted(j)
    /\ pc = "done" => \A i \in SummaryTalks : SummaryCompleted(i)

\* The record r is the record of talk t of the window
OwnRecord(r, t) ==
    /\ r.index = t
    /\ r.title = talks[t].title
    /\ r.sched_link = Some(talks[t].sched_link)

\* C25: in a summarizing process_sched_talks run, whichever order the tasks
\* finish in, the result of task t is the record of talk t, and the returned
\* mapping holds under each talk's URL the record with that talk's index,
\* title, link, event type and deck, in window order.
C25_OrderIndependent ==
    (kind = "sched" /\ pc \in {"gather", "done"} /\ args.summarize) =>
        /\ \A t \in 1..Len(tasks) :
             tasks[t].result # None => OwnRecord(tasks[t].result[1], t)
        /\ pc = "done" =>
             /\ Len(output) = Cardinality({t \in 1..Len(tasks) : tasks[t].result # None})
             /\ \A i \in 1..Len(output) :
                  \E t \in 1..Len(talks) :
                     /\ output[i].key = talks[t].youtube_url
                     /\ OwnRecord(output[i].value, t)
                     /\ output[i].value.event_type = talks[t].event_type
                     /\ output[i].value.deck_url = talks[t].deck_url
             /\ \A i \in 1..Len(output), j \in 1..Len(output) :
                  i < j => output[i].value.index < output[j].value.index

\* The second task has returned its record while the first is still running
C25_Witness ==
    /\ kind = "sched" /\ pc = "gather" /\ args.summarize
    /\ Len(tasks) = 2
    /\ tasks[1].pc # "done"
    /\ tasks[2].pc = "done" /\ tasks[2].result # None
    /\ tasks[2].result[1].summary \in SummaryTexts

\* The cache records task t will write when the call it is waiting for
\* returns: the transcript record after a fetch that found no cached
\* transcript, the summary record after its summarizer call
PendingWrites(t) ==
    CASE tasks[t].pc = "fetching" ->
           IF load_subtitle_cache(files, tasks[t].video_id) = None
           THEN {get_subtitle_cache_path(tasks[t].video_id)} ELSE {}
      [] tasks[t].pc \in {"lockwait", "inflight"} ->
           {get_summary_cache_path(tasks[t].video_id, args.summarizer)}
      [] OTHER -> {}

\* C26: no two tasks running under the same gather are about to write the
\* same transcript or summary cache record.
C26_OwnKeys ==
    pc = "gather" =>
        \A t \in 1..Len(tasks), u \in 1..Len(tasks) :
            t # u => PendingWrites(t) \cap PendingWrites(u) = {}

\* This step is a call of process_sched_talks that scrapes the schedule
FreshScrapeStep ==
    /\ kind = "sched" /\ pc = "idle" /\ pc' # "idle"
    /\ ~used_cache' /\ calls'.list = 1

\* C27: a fresh scrape with offset k requests no detail page of the first k
\* schedule entries (its requests go to later entries only), and with k > 0
\* it leaves the cache files as they were.
C27_OffsetSkipsRequests ==
    [][FreshScrapeStep =>
          LET k == args'.offset
              got == scrape_sched_talks_async(event, args'.limit, k)
          IN  /\ \A r \in 1..Len(got.asked) : got.asked[r] > k
              /\ calls'.detail \in {0, Len(got.asked)}
              /\ calls'.detail <= Len(event) - k \/ calls'.detail = 0
              /\ k > 0 => files' = files]_vars

\* A scrape with an offset found a talk behind the skipped entries, asked
\* for fewer detail pages than the schedule has entries, and the source-list
\* cache is still empty
C27_Witness ==
    /\ kind = "sched" /\ pc \in {"gather", "done"} /\ ~used_cache
    /\ args.offset > 0 /\ args.offset < Len(event)
    /\ calls.detail > 0 /\ calls.detail <= Len(event) - args.offset
    /\ talks # <<>>
    /\ load_sched_cache(files, SchedUrl) = None

\* The description the schedule shows on the detail page behind this link
ScrapedDescription(sched_link) ==
    LET e == CHOOSE e \in 1..Len(event) : event[e].sched_link = sched_link
    IN  event[e].description

\* C28: a call of process_sched_talks with summarize = False returns at once
\* one record per talk of the window, its summary the scraped description;
\* it starts no task, fetches no transcript, calls no summarizer and leaves
\* every transcript and summary record as it was.
C28_DescriptionMode ==
    [][(kind = "sched" /\ pc = "idle" /\ pc' # "idle" /\ ~args'.summarize) =>
          /\ pc' = "done"
          /\ tasks' = <<>> /\ issued' = {}
          /\ calls'.transcript = 0 /\ calls'.summarize = 0
          /\ Len(output') = Len(talks')
          /\ \A i \in 1..Len(talks') :
               /\ output'[i].key = talks'[i].youtube_url
               /\ output'[i].value.index = i
               /\ output'[i].value.summary = talks'[i].description
               /\ output'[i].value.summary = ScrapedDescription(talks'[i].sched_link)
          /\ \A p \in (DOMAIN files \cup DOMAIN files') \ {get_sched_cache_path(SchedUrl)} :
               p \in DOMAIN files /\ p \in DOMAIN files' /\ files'[p] = files[p]]_vars

\* A run without summarization returned the descriptions of two talks while
\* the summary cache holds a summary for the first of them
C28_Witness ==
    /\ kind = "sched" /\ pc = "done" /\ ~args.summarize
    /\ Len(output) = 2
    /\ output[1].value.summary = event[1].description
    /\ load_summary_cache(files, VideoId(1), backend) \notin {None, Some(event[1].description)}

\* C29: GeminiSummarizer.summarize waits only between attempts: before the
\* second attempt 2 seconds and before the third 4 seconds, or the delay the
\* error text suggests ("retry in N") where it has one; every rate-limit
\* error of the first or second attempt is followed by such a wait, and the
\* call returns after its last attempt without waiting.
C29_RetryDelays ==
    gemini.pc # "idle" =>
        /\ Len(gemini.delays) <= 2
        /\ \A i \in 1..Len(gemini.delays) :
             LET suggested == SuggestedDelay(Lower(gemini.errors[i].text))
             IN  gemini.delays[i] = IF suggested # None THEN suggested[1]
                                    ELSE IF i = 1 THEN 2 ELSE 4
        /\ \A i \in 1..Len(gemini.errors) :
             (gemini.errors[i].rate_limit /\ i <= 2) => i <= Len(gemini.delays)
        /\ gemini.pc = "calling" => Len(gemini.delays) = gemini.calls
        /\ gemini.pc = "sleeping" => Len(gemini.delays) = gemini.calls
        /\ gemini.pc = "returned" => Len(gemini.delays) = gemini.calls - 1

\* Three attempts hit the rate limit: the first error suggesting 7 seconds,
\* the second without a suggestion; the call returned after the third
C29_Witness ==
    /\ gemini.pc = "returned" /\ gemini.calls = 3
    /\ gemini.delays = <<7, 4>>
    /\ \A i \in 1..3 : gemini.errors[i].rate_limit

\* The response came back and its page has no title element
LacksTitle(response) == response.ok /\ ~response.title

\* C30: one call of _fetch_talk_detail makes at most 3 requests; every
\* response before the last lacks the title element, so the call stops at
\* the first response that has it; it sleeps the fixed delay once between
\* two attempts and not after the last; and when 3 responses lack the title
\* it returns no talk.
C30_DetailRetries ==
    detail.pc # "idle" =>
        /\ detail.requests <= 3
        /\ detail.requests = Len(detail.responses)
        /\ \A i \in 1..(Len(detail.responses) - 1) : LacksTitle(detail.responses[i])
        /\ \A i \in 1..Len(detail.sleeps) : detail.sleeps[i] = retry_sleep
        /\ detail.pc = "requesting" => Len(detail.sleeps) = detail.requests
        /\ detail.pc = "sleeping" =>
             Len(detail.sleeps) = detail.requests /\ detail.requests < 3
        /\ detail.pc = "returned" =>
             /\ Len(detail.sleeps) = detail.requests - 1
             /\ LET last == detail.responses[detail.requests]
                IN  /\ LacksTitle(last) => (detail.requests = 3 /\ detail.result = None)
                    /\ (last.ok /\ last.title) => detail.result = _fetch_talk_detail(last.page)

\* Three responses lacked the title: the call slept twice, between the
\* attempts, and returned no talk
C30_Witness ==
    /\ detail.pc = "returned" /\ detail.requests = 3
    /\ Len(detail.sleeps) = 2
    /\ \A i \in 1..3 : LacksTitle(detail.responses[i])
    /\ detail.result = None

\* The talks a call with these arguments works on when it scrapes the
\* schedule itself
FreshWindow(limit, offset) ==
    ApplyLimit(ApplyOffset(scrape_sched_talks_async(event, limit, offset).talks,
                           FALSE, offset), limit)

\* The videos of a list of talks
TalkSet(list) == {list[i].youtube_url : i \in 1..Len(list)}

\* C31: a process_sched_talks call served from the source-list cache works
\* on the same set of talks as a call with the same event, offset and limit
\* that scrapes the schedule, also when schedule entries have no video.
C31_FreshEqualsCached ==
    (kind = "sched" /\ pc \in {"gather", "done"} /\ used_cache) =>
        TalkSet(talks) = TalkSet(FreshWindow(args.limit, args.offset))

\* C32: every summarizer call is made for a talk with a non-empty
\* transcript and, when use_summary_cache is true, without a summary in the
\* summary cache at the moment of the decision; in process_playlist and in
\* process_video.
C32_SummarizerInputs ==
    [][calls'.summarize > calls.summarize =>
          IF kind = "playlist"
          THEN LET item == prepared[pos]
               IN  /\ item.subtitles # <<>>
                   /\ args.use_summary_cache
                      => load_summary_cache(files, item.video_id, args.summarizer) = None
          ELSE \E t \in 1..Len(tasks) :
                  /\ tasks[t].pc = "fetching"
                  /\ tasks'[t].pc \in {"lockwait", "inflight"}
                  /\ tasks'[t].subtitles # <<>>
                  /\ args.use_summary_cache
                     => load_summary_cache(files', tasks[t].video_id, args.summarizer) = None
      ]_vars

\* With the summary cache enabled a run of two talks called the summarizer
\* once: one talk had a transcript and no cached summary, the other had no
\* transcript and got the empty summary
C32_Witness ==
    /\ pc = "done" /\ args.summarize /\ args.use_summary_cache
    /\ calls.summarize = 1
    /\ Len(output) = 2
    /\ \E i \in 1..2, j \in 1..2 :
         /\ output[i].value.summary \in SummaryTexts
         /\ output[j].value.summary = <<>>

\* C33: a transcript fetch that fails creates no transcript record and
\* changes no cache file, and every call for an id without a record issues
\* the external call (again); a successful fetch leaves a record, records
\* stay, and a call for an id with a record issues no external call.
C33_FailedFetchNotCached ==
    [][LET f == fetch'[1]
           id == f.video_id
       IN  /\ f.before = load_subtitle_cache(files, id)
           /\ f.before = None => f.fetched = 1
           /\ (f.before = None /\ ~f.outcome.ok)
              => (/\ f.result = None
                  /\ files' = files
                  /\ load_subtitle_cache(files', id) = None)
           /\ (f.before = None /\ f.outcome.ok) => load_subtitle_cache(files', id) # None
           /\ f.before # None => f.fetched = 0
           /\ \A v \in FetchVideoIds :
                load_subtitle_cache(files, v) # None
                => load_subtitle_cache(files', v) = load_subtitle_cache(files, v)
      ]_vars

\* The last call asked the transcript service, which failed, and the id has
\* no record, while the other id has the record of its successful fetch
C33_Witness ==
    /\ fetch # None
    /\ ~fetch[1].outcome.ok /\ fetch[1].fetched = 1 /\ fetch[1].result = None
    /\ load_subtitle_cache(files, fetch[1].video_id) = None
    /\ \E v \in FetchVideoIds : load_subtitle_cache(files, v) # None

\* C34: on a sequential OllamaSummarizer every summarize call that has
\* started, waiting for the lock or holding it, eventually returns.
C34_EveryCallReturns ==
    \A c \in Callers :
        (ollama.pc[c] \in {"waiting", "posting"}) ~> (ollama.pc[c] = "returned")

\* A call that had to wait has returned after the lock holder's request
\* failed; nobody holds the lock
C34_Witness ==
    /\ \E c \in Callers, d \in Callers :
         /\ c # d
         /\ ollama.pc[c] = "returned" /\ ollama.result[c] = Some(ErrorSentinel)
         /\ ollama.pc[d] = "returned" /\ ollama.waited[d]
    /\ ollama.lock = 0

\* C35: for the same window of talks, process_sched_talks with summarization
\* returns the keys that the description mode returns for it, with the same
\* index, title, sched_link, event_type and deck_url under each key.
C35_SameRecords ==
    (kind = "sched" /\ pc = "done" /\ args # <<>> /\ args.summarize) =>
        LET described == DescriptionOutput(talks, 1, <<>>)
        IN  /\ Keys(output) = Keys(described)
            /\ \A i \in 1..Len(output) :
                 LET a == output[i].value
                     b == described[i].value
                 IN  /\ a.index = b.index
                     /\ a.title = b.title
                     /\ a.sched_link = b.sched_link
                     /\ a.event_type = b.event_type
                     /\ a.deck_url = b.deck_url

\* The storage paths of the three kinds of record this installation can hold
SourceListPaths == {get_playlist_cache_path(PlaylistUrl), get_sched_cache_path(SchedUrl)}
TranscriptPaths == {get_subtitle_cache_path(VideoId(i)) : i \in 1..MaxTalks}
SummaryPaths ==
    {get_summary_cache_path(VideoId(i), s) : i \in 1..MaxTalks, s \in PipelineSummarizers}
Namespaces == {SourceListPaths, TranscriptPaths, SummaryPaths}

\* A path as the file system resolves it: the components of its directory,
\* then the components of what follows
DirComponents(dir) ==
    CASE dir = Head(CacheDir) -> <<"~", ".cache", "summit">>
      [] dir = Head(SummaryDir) -> <<"~", ".cache", "summit", "summaries">>
      [] dir = Head(SubtitleDir) -> <<"~", ".cache", "subtitles">>
      [] OTHER -> <<dir>>
RECURSIVE NameComponents(_, _)
NameComponents(pieces, name) ==
    IF pieces = <<>> THEN <<name>>
    ELSE IF Head(pieces) = "/" THEN <<name>> \o NameComponents(Tail(pieces), <<>>)
    ELSE NameComponents(Tail(pieces), Append(name, Head(pieces)))
Resolve(path) == DirComponents(Head(path)) \o NameComponents(Tail(path), <<>>)

\* The records of a set of paths: which exist, and what they hold
Records(fs, paths) == [p \in paths \cap DOMAIN fs |-> fs[p]]

\* No path of one namespace names the file of a path of another
PathsDisjoint ==
    \A m \in Namespaces, n \in Namespaces :
        m # n => \A p \in m, q \in n : Resolve(p) # Resolve(q)
CachePaths == UNION Namespaces

\* C36: no path of one cache namespace (source lists, transcripts, summaries)
\* names the file of a path of another, every cache file lies in one of the
\* three, and a step that creates, changes or removes a record of one
\* namespace leaves the records of the other two as they were.
C36_NamespacesDisjoint ==
    [][/\ PathsDisjoint
       /\ DOMAIN files' \subseteq CachePaths
       /\ \A m \in Namespaces, n \in Namespaces :
            (m # n /\ Records(files', m) # Records(files, m))
                => Records(files', n) = Records(files, n)]_vars

\* Each namespace holds a record, the summary written last
C36_Witness ==
    /\ \E p \in SourceListPaths : p \in DOMAIN files
    /\ \E p \in TranscriptPaths : p \in DOMAIN files
    /\ \E p \in SummaryPaths : p \in DOMAIN files
    /\ calls # <<>> /\ calls.summarize > 0

====
